---- MODULE Spec2Model ----
(***************************************************************************)
(* Portfolio valuation and currency-conversion engine of MoneyInOne:       *)
(* FinanceService (backend/app/services/finance_service.py) on top of      *)
(* MarketDataService (backend/app/services/market_data_service.py).        *)
(*                                                                         *)
(* Decimals are records [k, c, e] with value c * 10^e, as Python's         *)
(* decimal.Decimal keeps a coefficient and an exponent; Optional[Decimal]  *)
(* adds the kinds "none" (None) and "raise" (the call raised).  Strings    *)
(* that are parsed or formatted (provider fields, cache values) are        *)
(* sequences of one-character strings.                                     *)
(***************************************************************************)
EXTENDS Integers, Sequences, FiniteSets, TLC

VARIABLES
    users,       \* device_id -> user id            (table users)
    assets,      \* asset id  -> asset row           (table assets)
    credits,     \* credit id -> credit row          (table credits)
    redis,       \* cache key -> entry               (the Redis store)
    redis_state, \* "up", "down" (ping fails) or "flaky" (ping works, get/setex raise)
    provider,    \* Alpha Vantage: request -> response
    now,         \* the clock, in units of one cache TTL (24 hours)
    result,      \* what the last handler returned and observed
    prev,        \* the grouped view returned just before, while nothing changed since
    seen,        \* what earlier calls did, as long as it still matters
    inflight     \* the tasks of the gather in progress, and what they are at

vars == <<users, assets, credits, redis, redis_state, provider, now, result, prev,
          seen, inflight>>

-----------------------------------------------------------------------------
(* Bounds of the model *)

MaxAssets == 2
MaxCredits == 1
MaxTime == 1
MaxHoldings == 3

(* settings.cache_ttl_market_prices and settings.cache_ttl_exchange_rates are
   both 24 hours; one clock unit is 24 hours. *)
CacheTtlMarketPrices == 1
CacheTtlExchangeRates == 1

-----------------------------------------------------------------------------
(* decimal.Decimal and Optional[Decimal] *)

None == [k |-> "none", c |-> 0, e |-> 0]
Raised == [k |-> "raise", c |-> 0, e |-> 0]
Dec(c, e) == [k |-> "dec", c |-> c, e |-> e]

IsDec(d) == d.k = "dec"

\* bool(x) for x an Optional[Decimal]: None and zero are falsy
Truthy(d) == d.k = "dec" /\ d.c # 0

RECURSIVE Pow10(_)
Pow10(n) == IF n <= 0 THEN 1 ELSE 10 * Pow10(n - 1)

MinInt(a, b) == IF a <= b THEN a ELSE b

\* a * b: coefficients multiply, exponents add
DecMul(a, b) == Dec(a.c * b.c, a.e + b.e)

\* a + b: aligned to the smaller exponent
DecAdd(a, b) ==
    LET e == MinInt(a.e, b.e)
    IN Dec(a.c * Pow10(a.e - e) + b.c * Pow10(b.e - e), e)

\* a - b
DecSub(a, b) == DecAdd(a, Dec(0 - b.c, b.e))

\* a == b on Decimals is numeric: Decimal("600") == Decimal("600.0")
DecEq(a, b) ==
    /\ a.k = b.k
    /\ LET e == MinInt(a.e, b.e)
       IN a.c * Pow10(a.e - e) = b.c * Pow10(b.e - e)

-----------------------------------------------------------------------------
(* str(Decimal) and Decimal(str) *)

DigitChars == <<"0", "1", "2", "3", "4", "5", "6", "7", "8", "9">>

RECURSIVE Digits(_)
Digits(n) == IF n < 10 THEN <<DigitChars[n + 1]>>
             ELSE Append(Digits(n \div 10), DigitChars[(n % 10) + 1])

RECURSIVE Zeros(_)
Zeros(n) == IF n <= 0 THEN <<>> ELSE <<"0">> \o Zeros(n - 1)

\* str(d) for a Decimal with exponent <= 0: plain notation, -e fraction digits
DecStr(d) ==
    LET mag == IF d.c < 0 THEN 0 - d.c ELSE d.c
        raw == Digits(mag)
        n == 0 - d.e
        padded == IF Len(raw) <= n THEN Zeros(n + 1 - Len(raw)) \o raw ELSE raw
        body == IF n = 0 THEN padded
                ELSE SubSeq(padded, 1, Len(padded) - n) \o <<".">>
                     \o SubSeq(padded, Len(padded) - n + 1, Len(padded))
    IN IF d.c < 0 THEN <<"-">> \o body ELSE body

IsDigit(ch) == \E i \in 1..10 : DigitChars[i] = ch

DigitVal(ch) == (CHOOSE i \in 1..10 : DigitChars[i] = ch) - 1

RECURSIVE DigitsVal(_)
DigitsVal(s) == IF s = <<>> THEN 0
                ELSE 10 * DigitsVal(SubSeq(s, 1, Len(s) - 1)) + DigitVal(s[Len(s)])

\* Decimal(s): [-]digits[.digits]; anything else raises InvalidOperation
ParseDecimal(s) ==
    LET neg == s # <<>> /\ s[1] = "-"
        t == IF neg THEN Tail(s) ELSE s
        dots == {i \in 1..Len(t) : t[i] = "."}
        ds == SelectSeq(t, LAMBDA ch : ch # ".")
        ok == /\ ds # <<>>
              /\ \A i \in 1..Len(ds) : IsDigit(ds[i])
              /\ Cardinality(dots) <= 1
        frac == IF dots = {} THEN 0 ELSE Len(t) - (CHOOSE i \in dots : TRUE)
    IN IF ~ok THEN Raised
       ELSE Dec((IF neg THEN -1 ELSE 1) * DigitsVal(ds), 0 - frac)

-----------------------------------------------------------------------------
(* The Alpha Vantage provider *)

Str200 == <<"2", "0", "0">>
Str7 == <<"7", ".", "0">>
Str8 == <<"8", ".", "0">>
Str11 == <<"1", ".", "1">>
Str0 == <<"0">>
StrBad == <<"N", "/", "A">>

Ok(s) == [status |-> "ok", body |-> s]
Fail(st) == [status |-> st, body |-> <<>>]
NoData == [status |-> "none", body |-> <<>>]

\* the ways a call can fail before a price field is read
FailureStatuses == {"http_error", "rate_limit", "error_message", "exception"}

QuoteRequest(symbol) == "GLOBAL_QUOTE:" \o symbol
RateRequest(from, to) == "CURRENCY_EXCHANGE_RATE:" \o from \o "_" \o to

\* the provider's answer to a request; a subject it does not know gets an
\* "Error Message" body
Answer(prov, req) == IF req \in DOMAIN prov THEN prov[req] ELSE Fail("error_message")

\* _call_alpha_vantage: the JSON data, or None
CallAlphaVantage(resp) ==
    IF resp.status \in FailureStatuses THEN NoData ELSE resp

\* the part of both fetchers after the call: field, truthiness, Decimal(field)
PriceField(data) ==
    IF data = NoData \/ data.status = "empty_json" THEN None
    ELSE LET price_str == IF data.status = "no_field" THEN <<>> ELSE data.body
         IN IF price_str # <<>> THEN ParseDecimal(price_str) ELSE None

\* _fetch_stock_price
FetchStockPrice(prov, symbol) ==
    PriceField(CallAlphaVantage(Answer(prov, QuoteRequest(symbol))))

\* _fetch_exchange_rate
FetchExchangeRate(prov, from, to) ==
    PriceField(CallAlphaVantage(Answer(prov, RateRequest(from, to))))

-----------------------------------------------------------------------------
(* The Redis price cache *)

\* _init_connections: the client, or None when the ping fails
InitConnections(state) == IF state = "down" THEN "none" ELSE state

\* redis GET: the stored string while the entry has not expired, else nil
RedisGet(store, key, t) ==
    IF key \in DOMAIN store /\ t < store[key].expires
    THEN store[key].value ELSE <<>>

\* SETEX, had it left the expiry of an entry it overwrites as it was
RedisSetexKeepingExpiry(store, key, ttl, value, t) ==
    IF key \in DOMAIN store
    THEN [store EXCEPT ![key].value = value]
    ELSE (key :> [value |-> value, expires |-> t + ttl]) @@ store

\* redis SETEX: overwrite value and expiry
RedisSetex(store, key, ttl, value, t) ==
    (key :> [value |-> value, expires |-> t + ttl]) @@ store

\* _get_cached_price, after the GET: Decimal(cached.decode()) if cached else
\* None, and None when that raises
DecodeCached(cached) ==
    IF cached = <<>> THEN None
    ELSE IF ParseDecimal(cached) = Raised THEN None
    ELSE ParseDecimal(cached)

\* _get_cached_price, had it never found anything
GetCachedPriceAbsent(client, store, key, t) == None

\* _get_cached_price
GetCachedPrice(client, store, key, t) ==
    IF client = "none" THEN None
    ELSE IF client = "flaky" THEN None
    ELSE DecodeCached(RedisGet(store, key, t))

\* _set_cached_price, had it stored the coefficient of the price alone
SetCachedPriceCoefficient(client, store, key, price, ttl, t) ==
    IF client = "none" THEN store
    ELSE IF client = "flaky" THEN store
    ELSE RedisSetex(store, key, ttl, DecStr(Dec(price.c, 0)), t)

\* _set_cached_price, had it left an entry that has not expired as it is
SetCachedPriceIfAbsent(client, store, key, price, ttl, t) ==
    IF client = "none" THEN store
    ELSE IF client = "flaky" THEN store
    ELSE IF RedisGet(store, key, t) # <<>> THEN store
    ELSE RedisSetex(store, key, ttl, DecStr(price), t)

\* _set_cached_price: the store afterwards
SetCachedPrice(client, store, key, price, ttl, t) ==
    IF client = "none" THEN store
    ELSE IF client = "flaky" THEN store
    ELSE RedisSetex(store, key, ttl, DecStr(price), t)

\* A lookup returns [ret, store, trace]: the value (or None, or Raised), the
\* store afterwards, and the cache and provider requests it made, in order.
Lookup(ret, store, trace) == [ret |-> ret, store |-> store, trace |-> trace]

\* the requests of a lookup that found the cache empty-handed
MissTrace(client, key, req, stored) ==
    (IF client = "none" THEN <<>> ELSE <<"get " \o key>>)
    \o <<"fetch " \o req>>
    \o (IF stored /\ client # "none" THEN <<"set " \o key>> ELSE <<>>)

\* _get_with_cache after the cache read, had it cached every Decimal the
\* fetch returns, zero too
AfterCacheReadCachingZero(cached_price, client, store, key, req, fetched, ttl, t) ==
    IF Truthy(cached_price)
    THEN Lookup(cached_price, store, <<"get " \o key>>)
    ELSE IF IsDec(fetched)
    THEN Lookup(fetched,
                SetCachedPrice(client, store, key, fetched,
                               IF ttl # 0 THEN ttl ELSE CacheTtlMarketPrices, t),
                MissTrace(client, key, req, TRUE))
    ELSE Lookup(fetched, store, MissTrace(client, key, req, FALSE))

\* _get_with_cache after the cache read; fetched is what fetch_func(*args)
\* returns (or Raised) when it is called
AfterCacheRead(cached_price, client, store, key, req, fetched, ttl, t) ==
    IF Truthy(cached_price)
    THEN Lookup(cached_price, store, <<"get " \o key>>)
    ELSE IF Truthy(fetched)
    THEN Lookup(fetched,
                SetCachedPrice(client, store, key, fetched,
                               IF ttl # 0 THEN ttl ELSE CacheTtlMarketPrices, t),
                MissTrace(client, key, req, TRUE))
    ELSE Lookup(fetched, store, MissTrace(client, key, req, FALSE))

\* _get_with_cache, had it given up without a Redis client
GetWithCacheNeedingClient(client, store, key, req, fetched, ttl, t) ==
    IF client = "none" THEN Lookup(None, store, <<>>)
    ELSE AfterCacheRead(GetCachedPrice(client, store, key, t),
                        client, store, key, req, fetched, ttl, t)

\* _get_with_cache
GetWithCache(client, store, key, req, fetched, ttl, t) ==
    AfterCacheRead(GetCachedPrice(client, store, key, t),
                   client, store, key, req, fetched, ttl, t)

\* get_stock_price
GetStockPrice(client, store, prov, symbol, t) ==
    GetWithCache(client, store, "stock_price:" \o symbol, QuoteRequest(symbol),
                 FetchStockPrice(prov, symbol), 0, t)

\* get_crypto_price
GetCryptoPrice(client, store, prov, symbol, t) ==
    GetWithCache(client, store, "crypto_price:" \o symbol, RateRequest(symbol, "USD"),
                 FetchExchangeRate(prov, symbol, "USD"), 0, t)

\* the dict commodity_symbols
CommoditySymbol(commodity) ==
    CASE commodity = "gold" -> "XAU"
      [] commodity = "silver" -> "XAG"
      [] OTHER -> ""

\* get_commodity_price
GetCommodityPrice(client, store, prov, commodity, t) ==
    IF CommoditySymbol(commodity) = "" THEN Lookup(None, store, <<>>)
    ELSE GetWithCache(client, store, "commodity_price:" \o commodity,
                      RateRequest(CommoditySymbol(commodity), "USD"),
                      FetchExchangeRate(prov, CommoditySymbol(commodity), "USD"), 0, t)

\* get_exchange_rate
GetExchangeRate(client, store, prov, from, to, t) ==
    IF from = to THEN Lookup(Dec(10, -1), store, <<>>)
    ELSE GetWithCache(client, store, "exchange_rate:" \o from \o "_" \o to,
                      RateRequest(from, to), FetchExchangeRate(prov, from, to),
                      CacheTtlExchangeRates, t)

-----------------------------------------------------------------------------
(* Rows of the tables assets and credits *)

NoSymbol == ""
NoLookup == [k |-> "nolookup", c |-> 0, e |-> 0]

MarketCategories == {"stock", "crypto", "gold", "silver"}

\* getattr(item, "symbol", None), getattr(item, "shares", None)
ItemSymbol(item) == IF "symbol" \in DOMAIN item THEN item.symbol ELSE NoSymbol
ItemShares(item) == IF "shares" \in DOMAIN item THEN item.shares ELSE None
ItemTracked(item) ==
    IF "is_market_tracked" \in DOMAIN item THEN item.is_market_tracked ELSE FALSE

\* AssetCreate: the field constraints and enforce_usd_for_stock_crypto
ValidAssetCreate(data) ==
    /\ data.amount.c > 0
    /\ data.shares = None \/ data.shares.c > 0
    /\ data.category \in MarketCategories => data.currency = "USD"

\* CreditCreate: the field constraints
ValidCreditCreate(data) == data.amount.c > 0

\* the Asset(...) built by create_asset
AssetRow(user_id, data, t) ==
    [user_id |-> user_id, category |-> data.category, amount |-> data.amount,
     currency |-> data.currency, symbol |-> data.symbol, shares |-> data.shares,
     is_market_tracked |-> data.is_market_tracked,
     original_amount |-> data.amount, current_amount |-> None,
     last_price_update |-> t, created_at |-> t, updated_at |-> t]

\* the Credit(...) built by create_credit
CreditRow(user_id, data, t) ==
    [user_id |-> user_id, category |-> data.category, amount |-> data.amount,
     currency |-> data.currency, created_at |-> t, updated_at |-> t]

\* AssetUpdate: the field constraints and validate_stock_fields.  update is
\* model_dump(exclude_unset=True): the fields the request set, a null being
\* None (NoSymbol for the symbol)
ValidAssetUpdate(update) ==
    /\ "amount" \in DOMAIN update => update.amount = None \/ update.amount.c > 0
    /\ "shares" \in DOMAIN update => update.shares = None \/ update.shares.c > 0
    /\ ("category" \in DOMAIN update /\ update.category \notin MarketCategories) =>
          /\ "symbol" \in DOMAIN update => update.symbol = NoSymbol
          /\ "shares" \in DOMAIN update => update.shares = None

\* a request that set no field
NoFields == [f \in {} |-> None]

\* the setattr loop, had the request been dumped with its unset market fields
\* (symbol and shares default to null)
WithFieldsAndDefaults(asset, update) ==
    [f \in DOMAIN asset |->
        IF f \in DOMAIN update THEN update[f]
        ELSE IF f = "symbol" THEN NoSymbol
        ELSE IF f = "shares" THEN None
        ELSE asset[f]]

\* the row after the setattr loop of update_asset
WithFields(asset, update) ==
    [f \in DOMAIN asset |-> IF f \in DOMAIN update THEN update[f] ELSE asset[f]]

\* the commit of update_asset: the UPDATE is sent when an attribute changed,
\* and updated_at (onupdate=func.now()) goes with it
Flushed(asset, changed, t) ==
    IF changed = asset THEN asset ELSE [changed EXCEPT !.updated_at = t]

-----------------------------------------------------------------------------
(* The valuation engine *)

\* the price getter _compute_native_amount picks for the category
PriceForCategory(category, symbol, client, store, prov, t) ==
    CASE category = "stock" -> GetStockPrice(client, store, prov, symbol, t)
      [] category = "crypto" -> GetCryptoPrice(client, store, prov, symbol, t)
      [] category \in {"gold", "silver"} ->
            GetCommodityPrice(client, store, prov, category, t)
      [] OTHER -> Lookup(None, store, <<>>)

\* _compute_native_amount, had it tested the price with "if price:"
NativeFromTruthyPrice(item, r) ==
    [ret |-> IF Truthy(r.ret)
             THEN DecMul(r.ret, ParseDecimal(DecStr(ItemShares(item))))
             ELSE item.amount,
     store |-> r.store, trace |-> r.trace, price |-> r.ret]

\* _compute_native_amount, had it no except clause
NativeFromPriceUncaught(item, r) ==
    [ret |-> IF r.ret = Raised THEN Raised
             ELSE IF r.ret # None
             THEN DecMul(r.ret, ParseDecimal(DecStr(ItemShares(item))))
             ELSE item.amount,
     store |-> r.store, trace |-> r.trace, price |-> r.ret]

\* _compute_native_amount once the price lookup r is back: price * shares
\* when a price came, the stored amount when none came or the lookup raised
NativeFromPrice(item, r) ==
    [ret |-> IF r.ret # Raised /\ r.ret # None
             THEN DecMul(r.ret, ParseDecimal(DecStr(ItemShares(item))))
             ELSE item.amount,
     store |-> r.store, trace |-> r.trace, price |-> r.ret]

\* _compute_native_amount: [ret, store, trace, price], price being what the
\* price lookup returned, or NoLookup when none was made
ComputeNativeAmount(item, rstate, store, prov, t) ==
    IF /\ ItemSymbol(item) # NoSymbol
       /\ Truthy(ItemShares(item))
       /\ item.category \in MarketCategories
    THEN NativeFromPrice(item,
             PriceForCategory(item.category, ItemSymbol(item),
                              InitConnections(rstate), store, prov, t))
    ELSE [ret |-> item.amount, store |-> store, trace |-> <<>>, price |-> NoLookup]

\* _convert_to_base_currency, had it dropped the amount it cannot convert
ConvertedByRateOrZero(amount, r) ==
    IF Truthy(r.ret)
    THEN [amount |-> DecMul(amount, r.ret), rate |-> r.ret, store |-> r.store,
          trace |-> r.trace, fx |-> r.ret]
    ELSE [amount |-> Dec(0, 0), rate |-> Dec(0, 0), store |-> r.store,
          trace |-> r.trace, fx |-> r.ret]

\* _convert_to_base_currency once the rate lookup r is back
ConvertedByRate(amount, r) ==
    IF Truthy(r.ret)
    THEN [amount |-> DecMul(amount, r.ret), rate |-> r.ret, store |-> r.store,
          trace |-> r.trace, fx |-> r.ret]
    ELSE [amount |-> amount, rate |-> Dec(10, -1), store |-> r.store,
          trace |-> r.trace, fx |-> r.ret]

\* _convert_to_base_currency, had neither it nor get_exchange_rate compared
\* the two currencies
ConvertLookingUp(amount, from_currency, to_currency, rstate, store, prov, t) ==
    ConvertedByRate(amount,
        GetWithCache(InitConnections(rstate), store,
                     "exchange_rate:" \o from_currency \o "_" \o to_currency,
                     RateRequest(from_currency, to_currency),
                     FetchExchangeRate(prov, from_currency, to_currency),
                     CacheTtlExchangeRates, t))

\* _convert_to_base_currency: [amount, rate, store, trace, fx], fx being what
\* the exchange-rate lookup returned, or NoLookup when none was made
ConvertToBaseCurrency(amount, from_currency, to_currency, rstate, store, prov, t) ==
    IF from_currency = to_currency
    THEN [amount |-> amount, rate |-> Dec(10, -1), store |-> store,
          trace |-> <<>>, fx |-> NoLookup]
    ELSE ConvertedByRate(amount,
             GetExchangeRate(InitConnections(rstate), store, prov,
                             from_currency, to_currency, t))

\* what a handler saw and computed for one item
ItemView(id, item, n, cv) ==
    [store |-> cv.store,
     view |-> [id |-> id, category |-> item.category, currency |-> item.currency,
               amount |-> item.amount, symbol |-> ItemSymbol(item),
               shares |-> ItemShares(item), tracked |-> ItemTracked(item),
               price |-> n.price, price_trace |-> n.trace, native |-> n.ret,
               fx |-> cv.fx, fx_trace |-> cv.trace,
               converted_amount |-> cv.amount, conversion_rate |-> cv.rate]]

\* the conversion of the native amount n of an item
ConvertItem(id, item, base_currency, n, rstate, prov, t) ==
    ItemView(id, item, n,
             ConvertToBaseCurrency(n.ret, item.currency, base_currency,
                                   rstate, n.store, prov, t))

\* One pass of the loop body shared by _group_and_convert_items and
\* _calculate_category_summary: native amount, then one conversion
ValueItem(id, item, base_currency, rstate, store, prov, t) ==
    ConvertItem(id, item, base_currency,
                ComputeNativeAmount(item, rstate, store, prov, t), rstate, prov, t)

\* the loop, had it left out the items whose price lookup gave no price
NextViewsDroppingUnpriced(acc, v) ==
    IF v.view.price \in {None, Raised} THEN [views |-> acc.views, store |-> v.store]
    ELSE [views |-> Append(acc.views, v.view), store |-> v.store]

\* the views so far and the cache, after one more item
NextViews(acc, v) == [views |-> Append(acc.views, v.view), store |-> v.store]

\* the items of the loop, one after the other, threading the cache:
\* [views, store]; acc is the result so far
RECURSIVE ValueItems(_, _, _, _, _, _, _)
ValueItems(ids, table, base_currency, rstate, acc, prov, t) ==
    IF ids = <<>> THEN acc
    ELSE ValueItems(Tail(ids), table, base_currency, rstate,
                    NextViews(acc, ValueItem(Head(ids), table[Head(ids)],
                                             base_currency, rstate, acc.store,
                                             prov, t)),
                    prov, t)

-----------------------------------------------------------------------------
(* The aggregation engine *)

\* ids of a set, in ascending order
RECURSIVE Ascending(_)
Ascending(S) ==
    IF S = {} THEN <<>>
    ELSE LET m == CHOOSE x \in S : \A y \in S : x <= y
         IN <<m>> \o Ascending(S \ {m})

RECURSIVE Reverse(_)
Reverse(s) == IF s = <<>> THEN <<>> ELSE Reverse(Tail(s)) \o <<Head(s)>>

\* the rows of one user
OwnedBy(table, user_id) == {id \in DOMAIN table : table[id].user_id = user_id}

\* the loop, had it assigned the converted amount to the category total
RECURSIVE GroupLoopAssigningTotal(_, _, _)
GroupLoopAssigningTotal(views, grouped_items, category_totals) ==
    IF views = <<>> THEN [items |-> grouped_items, totals |-> category_totals]
    ELSE LET v == Head(views)
             category == v.category
             g0 == IF category \in DOMAIN grouped_items THEN grouped_items
                   ELSE (category :> <<>>) @@ grouped_items
         IN GroupLoopAssigningTotal(Tail(views),
                [g0 EXCEPT ![category] = Append(@, v)],
                (category :> v.converted_amount) @@ category_totals)

\* the loop of _group_and_convert_items over the views of the items:
\* [items, totals], both keyed by category
RECURSIVE GroupLoop(_, _, _)
GroupLoop(views, grouped_items, category_totals) ==
    IF views = <<>> THEN [items |-> grouped_items, totals |-> category_totals]
    ELSE LET v == Head(views)
             category == v.category
             g0 == IF category \in DOMAIN grouped_items THEN grouped_items
                   ELSE (category :> <<>>) @@ grouped_items
             t0 == IF category \in DOMAIN category_totals THEN category_totals
                   ELSE (category :> Dec(0, 0)) @@ category_totals
         IN GroupLoop(Tail(views),
                      [g0 EXCEPT ![category] = Append(@, v)],
                      [t0 EXCEPT ![category] = DecAdd(@, v.converted_amount)])

\* the breakdown _group_and_convert_items builds from the loop's dicts
Breakdown(g, vs) ==
    [breakdown |-> [category \in DOMAIN g.items |->
                       [items |-> g.items[category],
                        total_amount |-> g.totals[category],
                        count |-> Len(g.items[category])]],
     views |-> vs.views, store |-> vs.store]

\* the grouping of the valued items vs
Grouped(vs) == Breakdown(GroupLoop(vs.views, <<>>, <<>>), vs)

\* _group_and_convert_items: [breakdown, views, store]
GroupAndConvertItems(ids, table, base_currency, rstate, store, prov, t) ==
    Grouped(ValueItems(ids, table, base_currency, rstate,
                       [views |-> <<>>, store |-> store], prov, t))

\* the loop of _calculate_category_summary: [totals, counts, total_amount]
RECURSIVE SummaryLoop(_, _, _, _)
SummaryLoop(views, category_totals, category_counts, total_amount) ==
    IF views = <<>>
    THEN [totals |-> category_totals, counts |-> category_counts,
          total_amount |-> total_amount]
    ELSE LET v == Head(views)
             category == v.category
             old_total == IF category \in DOMAIN category_totals
                          THEN category_totals[category] ELSE Dec(0, 0)
             old_count == IF category \in DOMAIN category_counts
                          THEN category_counts[category] ELSE 0
         IN SummaryLoop(Tail(views),
                        (category :> DecAdd(old_total, v.converted_amount))
                            @@ category_totals,
                        (category :> old_count + 1) @@ category_counts,
                        DecAdd(total_amount, v.converted_amount))

\* the summary, had the comprehension's total_amount been the grand total
SummaryOfGrandTotal(l, vs) ==
    [summary |-> [category \in DOMAIN l.totals |->
                     [total_amount |-> l.total_amount,
                      count |-> l.counts[category]]],
     total_amount |-> l.total_amount,
     views |-> vs.views, store |-> vs.store]

\* the summary _calculate_category_summary builds from the loop's dicts
Summary(l, vs) ==
    [summary |-> [category \in DOMAIN l.totals |->
                     [total_amount |-> l.totals[category],
                      count |-> l.counts[category]]],
     total_amount |-> l.total_amount,
     views |-> vs.views, store |-> vs.store]

\* the summary of the valued items vs
Summarised(vs) == Summary(SummaryLoop(vs.views, <<>>, <<>>, Dec(0, 0)), vs)

\* _calculate_category_summary: [summary, total_amount, views, store]
CalculateCategorySummary(ids, table, base_currency, rstate, store, prov, t) ==
    Summarised(ValueItems(ids, table, base_currency, rstate,
                          [views |-> <<>>, store |-> store], prov, t))

-----------------------------------------------------------------------------
(* The sums of _calculate_category_summary in the precision of the decimal
   context.  Decimal + Decimal is the exact sum rounded to the context's 28
   significant digits, half to even.  The coefficients of the Decimals above
   stay far below 28 digits, where the sum is exact; here a coefficient is
   the sequence of its digits, most significant first, so that it can be as
   long as the context allows. *)

\* decimal.getcontext(): the default context the service computes in
DecimalContext == [prec |-> 28, rounding |-> "ROUND_HALF_EVEN"]

\* a Decimal of coefficient digits and exponent e
Wide(digits, e) == [digits |-> digits, e |-> e]

\* n digits 0
ZeroDigits(n) == [i \in 1..n |-> 0]

\* the digits of an int without its leading zeros
StripLeading(ds) ==
    LET nonzero == {i \in 1..Len(ds) : ds[i] # 0}
    IN IF nonzero = {} THEN <<0>>
       ELSE SubSeq(ds, CHOOSE i \in nonzero : \A j \in nonzero : i <= j, Len(ds))

\* the digit of x at the place p, the last digit being at place 1
DigitAt(x, p) == IF p <= Len(x) THEN x[Len(x) + 1 - p] ELSE 0

\* whether the places below p of x + y carry into p: some place overflows
\* and every place between it and p is a 9
CarryInto(x, y, p) ==
    \E q \in 1..(p - 1) :
        /\ DigitAt(x, q) + DigitAt(y, q) >= 10
        /\ \A r \in (q + 1)..(p - 1) : DigitAt(x, r) + DigitAt(y, r) = 9

\* the digits of x + y, x and y aligned at their last digit
AddDigits(x, y) ==
    LET n == (IF Len(x) >= Len(y) THEN Len(x) ELSE Len(y)) + 1
    IN StripLeading([i \in 1..n |->
          (DigitAt(x, n + 1 - i) + DigitAt(y, n + 1 - i)
           + (IF CarryInto(x, y, n + 1 - i) THEN 1 ELSE 0)) % 10])

\* ROUND_HALF_EVEN: whether dropping the digits rest after kept rounds up
RoundsUp(kept, rest) ==
    \/ rest[1] > 5
    \/ /\ rest[1] = 5
       /\ \/ \E i \in 2..Len(rest) : rest[i] # 0
          \/ kept[Len(kept)] % 2 = 1

\* the kept digits after rounding, one place up when 99..9 rounds to 100..0
Rounded(kept, rest, e) ==
    LET up == IF RoundsUp(kept, rest) THEN AddDigits(kept, <<1>>) ELSE kept
    IN IF Len(up) > Len(kept)
       THEN Wide(SubSeq(up, 1, Len(kept)), e + Len(rest) + 1)
       ELSE Wide(up, e + Len(rest))

\* Decimal._fix: the result rounded to the precision of the context
Fix(d) ==
    IF Len(d.digits) <= DecimalContext.prec THEN d
    ELSE Rounded(SubSeq(d.digits, 1, DecimalContext.prec),
                 SubSeq(d.digits, DecimalContext.prec + 1, Len(d.digits)), d.e)

\* a + b of two Decimals >= 0: aligned to the smaller exponent, added, fixed
WideAdd(a, b) ==
    LET e == MinInt(a.e, b.e)
    IN Fix(Wide(AddDigits(a.digits \o ZeroDigits(a.e - e),
                          b.digits \o ZeroDigits(b.e - e)), e))

\* the value of a Decimal, as == compares it: without trailing zeros
WideValue(d) ==
    LET nonzero == {i \in 1..Len(d.digits) : d.digits[i] # 0}
        last == CHOOSE i \in nonzero : \A j \in nonzero : j <= i
    IN IF nonzero = {} THEN Wide(<<0>>, 0)
       ELSE Wide(SubSeq(d.digits, 1, last), d.e + Len(d.digits) - last)

\* the loop of _calculate_category_summary over the items as valued, each
\* [category, converted_amount]: [totals, counts, total_amount]
RECURSIVE SummaryLoopInContext(_, _, _, _)
SummaryLoopInContext(items, category_totals, category_counts, total_amount) ==
    IF items = <<>>
    THEN [totals |-> category_totals, counts |-> category_counts,
          total_amount |-> total_amount]
    ELSE LET category == Head(items).category
             converted_amount == Head(items).converted_amount
             old_total == IF category \in DOMAIN category_totals
                          THEN category_totals[category] ELSE Wide(<<0>>, 0)
             old_count == IF category \in DOMAIN category_counts
                          THEN category_counts[category] ELSE 0
         IN SummaryLoopInContext(Tail(items),
                (category :> WideAdd(old_total, converted_amount))
                    @@ category_totals,
                (category :> old_count + 1) @@ category_counts,
                WideAdd(total_amount, converted_amount))

\* _calculate_category_summary of the valued items: (summary, total_amount)
CategorySummaryInContext(items) ==
    LET l == SummaryLoopInContext(items, <<>>, <<>>, Wide(<<0>>, 0))
    IN [summary |-> [category \in DOMAIN l.totals |->
                        [total_amount |-> l.totals[category],
                         count |-> l.counts[category]]],
        total_amount |-> l.total_amount]

\* the rows as select(Asset) returned them, order[i] being the id of the i-th,
\* each with the converted amount its valuation gives (values, by symbol)
ValuedInOrder(table, order, values) ==
    [i \in DOMAIN order |->
        [category |-> table[order[i]].category,
         converted_amount |-> values[table[order[i]].symbol]]]

\* get_portfolio_summary of a user without credits, the query returning the
\* rows in the given order: net_worth is total_assets - Decimal("0")
SummaryInContext(table, order, values) ==
    LET a == CategorySummaryInContext(ValuedInOrder(table, order, values))
    IN [op |-> "summary_in_context", order |-> order,
        asset_summary |-> a.summary, net_worth |-> a.total_amount]

-----------------------------------------------------------------------------
(* Refresh: MarketDataService.update_asset_price / update_multiple_assets *)

\* float(d): the value only, without trailing fraction zeros
RECURSIVE ToFloat(_)
ToFloat(d) == IF d.e < 0 /\ d.c % 10 = 0 THEN ToFloat(Dec(d.c \div 10, d.e + 1)) ELSE d

\* str(f) of a float: always with a fraction part ("3.0")
FloatStr(f) == IF f.e = 0 THEN DecStr(Dec(f.c * 10, -1)) ELSE DecStr(f)

\* the dict refresh_prices appends to assets_data for one asset
AssetData(id, asset) ==
    [id |-> id, category |-> asset.category, symbol |-> asset.symbol,
     shares |-> IF Truthy(asset.shares) THEN ToFloat(asset.shares) ELSE Dec(1, 0),
     currency |-> asset.currency, amount |-> asset.amount]

Outcome(success, market_price, current_amount) ==
    [success |-> success, market_price |-> market_price,
     current_amount |-> current_amount]

Failure == Outcome(FALSE, None, None)

\* what one task of update_multiple_assets leaves: its tuple, whether it
\* raised instead, the store and the requests made
Task(outcome, raised, store, trace) ==
    [outcome |-> outcome, raised |-> raised, store |-> store, trace |-> trace]

\* the price_fetchers of update_asset_price
PriceFetcher(category, symbol, client, store, prov, t) ==
    IF category = "crypto" THEN GetCryptoPrice(client, store, prov, symbol, t)
    ELSE GetStockPrice(client, store, prov, symbol, t)

\* update_asset_price once the exchange-rate lookup x is back
AmountInBase(market_price, current_amount, trace, x) ==
    IF x.ret = Raised THEN Task(Failure, TRUE, x.store, trace \o x.trace)
    ELSE Task(Outcome(TRUE, market_price,
                      IF Truthy(x.ret) THEN DecMul(current_amount, x.ret)
                      ELSE current_amount),
              FALSE, x.store, trace \o x.trace)

\* update_asset_price once the price lookup r is back
AmountFromPrice(asset_data, base_currency, client, prov, t, r) ==
    IF r.ret = Raised THEN Task(Failure, TRUE, r.store, r.trace)
    ELSE IF ~Truthy(r.ret) THEN Task(Failure, FALSE, r.store, r.trace)
    ELSE IF asset_data.currency # base_currency
    THEN AmountInBase(r.ret,
                      DecMul(r.ret, ParseDecimal(FloatStr(asset_data.shares))),
                      r.trace,
                      GetExchangeRate(client, r.store, prov, asset_data.currency,
                                      base_currency, t))
    ELSE Task(Outcome(TRUE, r.ret,
                      DecMul(r.ret, ParseDecimal(FloatStr(asset_data.shares)))),
              FALSE, r.store, r.trace)

\* update_asset_price
UpdateAssetPrice(asset_data, base_currency, client, store, prov, t) ==
    IF asset_data.symbol = NoSymbol THEN Task(Failure, FALSE, store, <<>>)
    ELSE IF asset_data.category \notin MarketCategories
    THEN Task(Failure, FALSE, store, <<>>)
    ELSE AmountFromPrice(asset_data, base_currency, client, prov, t,
                         PriceFetcher(asset_data.category, asset_data.symbol,
                                      client, store, prov, t))

\* the result of one task, added to the dict update_multiple_assets returns;
\* a task that raised is mapped to (False, None, None)
Gathered(acc, id, u) ==
    [results |-> (id :> (IF u.raised THEN Failure ELSE u.outcome)) @@ acc.results,
     traces |-> (id :> u.trace) @@ acc.traces,
     store |-> u.store]

\* update_multiple_assets: the tasks of gather, run in list order on the one
\* client: [results, traces, store], keyed by asset id; acc is the result so far
RECURSIVE UpdateMultipleAssets(_, _, _, _, _, _)
UpdateMultipleAssets(assets_data, base_currency, client, acc, prov, t) ==
    IF assets_data = <<>> THEN acc
    ELSE UpdateMultipleAssets(Tail(assets_data), base_currency, client,
                              Gathered(acc, Head(assets_data).id,
                                       UpdateAssetPrice(Head(assets_data),
                                                        base_currency, client,
                                                        acc.store, prov, t)),
                              prov, t)

\* the row, had refresh_prices written the market value over the amount
RefreshedRowOverwritingAmount(asset, outcome, t) ==
    IF outcome.success
    THEN [asset EXCEPT !.amount = outcome.current_amount,
                       !.current_amount = outcome.current_amount,
                       !.last_price_update = t,
                       !.updated_at = t]
    ELSE asset

\* the row, had refresh_prices stamped the time of the refresh on the assets
\* it could not price too
RefreshedRowStampingFailures(asset, outcome, t) ==
    IF outcome.success
    THEN [asset EXCEPT !.original_amount = IF @ = None THEN asset.amount ELSE @,
                       !.current_amount = outcome.current_amount,
                       !.last_price_update = t,
                       !.updated_at = t]
    ELSE [asset EXCEPT !.last_price_update = t, !.updated_at = t]

\* the row after the loop body of refresh_prices and the commit
RefreshedRow(asset, outcome, t) ==
    IF outcome.success
    THEN [asset EXCEPT !.original_amount = IF @ = None THEN asset.amount ELSE @,
                       !.current_amount = outcome.current_amount,
                       !.last_price_update = t,
                       !.updated_at = t]
    ELSE asset

-----------------------------------------------------------------------------
(* Users *)

\* _get_or_create_user, had it inserted a user without looking one up
GetOrCreateUserWithoutSelect(us, device_id) ==
    [users |-> [d \in DOMAIN us \cup {device_id} |->
                   IF d = device_id THEN Cardinality(DOMAIN us) + 2 ELSE us[d]],
     id |-> Cardinality(DOMAIN us) + 2]

\* _get_or_create_user: [users, id].  The table is keyed by device_id, as the
\* unique index of User.device_id has it
GetOrCreateUser(us, device_id) ==
    IF device_id \in DOMAIN us THEN [users |-> us, id |-> us[device_id]]
    ELSE [users |-> (device_id :> Cardinality(DOMAIN us) + 1) @@ us,
          id |-> Cardinality(DOMAIN us) + 1]

-----------------------------------------------------------------------------
(* Inputs *)

Devices == {"d1"}
BaseCurrencies == {"USD", "CNY"}

AssetCreates(categories, amounts, currencies, symbols, shares, tracked) ==
    {data \in [category : categories, amount : amounts, currency : currencies,
               symbol : symbols, shares : shares, is_market_tracked : tracked] :
        ValidAssetCreate(data)}

\* requests accepted by AssetCreate, for the handlers working on several rows:
\* cash, and market-tracked stock positions of three shares bought for 300
\* whose symbol is missing, known to the provider ("AAPL") or unknown to it
\* ("ZZZ")
AssetCreateInputs ==
    AssetCreates({"cash"}, {Dec(300, 0)}, {"USD"}, {NoSymbol}, {None}, {FALSE})
    \cup AssetCreates({"stock"}, {Dec(300, 0)}, {"USD"}, {NoSymbol, "AAPL", "ZZZ"},
                      {Dec(3, 0)}, {TRUE})

\* requests accepted by AssetCreate, for the valuation of one holding
HoldingInputs ==
    AssetCreates({"cash", "stock"}, {Dec(1000, 0)}, {"USD", "EUR"},
                 {NoSymbol, "AAPL"}, {None, Dec(3, 0)}, BOOLEAN)
    \cup AssetCreates({"crypto"}, {Dec(1000, 0)}, {"USD"}, {NoSymbol, "BTC"},
                      {None, Dec(3, 0)}, BOOLEAN)
    \cup AssetCreates({"gold"}, {Dec(1000, 0)}, {"USD"}, {NoSymbol, "GLD"},
                      {None, Dec(3, 0)}, BOOLEAN)

\* requests accepted by AssetCreate, for the refresh of a portfolio: cash, and
\* market-tracked stock positions of three shares with and without symbol
RefreshInputs ==
    AssetCreates({"cash"}, {Dec(300, 0)}, {"USD"}, {NoSymbol}, {None}, {FALSE})
    \cup AssetCreates({"stock"}, {Dec(300, 0)}, {"USD"}, {NoSymbol, "AAPL"},
                      {Dec(3, 0)}, {TRUE})

CreditCreates(categories, amounts, currencies) ==
    {data \in [category : categories, amount : amounts, currency : currencies] :
        ValidCreditCreate(data)}

\* requests accepted by CreditCreate, for the handlers working on several rows
CreditCreateInputs == CreditCreates({"loan"}, {Dec(100, 0)}, {"USD"})

\* requests accepted by CreditCreate, for the valuation of one debt
DebtInputs == CreditCreates({"loan"}, {Dec(100, 0)}, {"USD", "EUR"})

\* the quotes and the rates Alpha Vantage serves
PriceRequests ==
    {QuoteRequest("AAPL"), RateRequest("BTC", "USD"), RateRequest("XAU", "USD")}
RateRequests ==
    {RateRequest("USD", "CNY"), RateRequest("EUR", "CNY"), RateRequest("EUR", "USD")}

\* what it answers while all is well
InitialProvider ==
    (QuoteRequest("AAPL") :> Ok(Str200))
    @@ (RateRequest("BTC", "USD") :> Ok(Str200))
    @@ (RateRequest("XAU", "USD") :> Ok(Str200))
    @@ (RateRequest("USD", "CNY") :> Ok(Str7))
    @@ (RateRequest("EUR", "CNY") :> Ok(Str8))
    @@ (RateRequest("EUR", "USD") :> Ok(Str11))

\* a feed is live, quotes zero, sends a field that is no number, or is
\* rate-limited
FeedModes == {"live", "zero", "malformed", "rate_limit"}
Feed(mode, req) ==
    CASE mode = "live" -> InitialProvider[req]
      [] mode = "zero" -> Ok(Str0)
      [] mode = "malformed" -> Ok(StrBad)
      [] OTHER -> Fail("rate_limit")

Idle == [op |-> "none"]

-----------------------------------------------------------------------------
(* Handlers *)

\* create_asset
CreateAsset(device_id, data) ==
    /\ Cardinality(DOMAIN assets) < MaxAssets
    /\ ValidAssetCreate(data)
    /\ LET u == GetOrCreateUser(users, device_id)
           id == Cardinality(DOMAIN assets) + 1
       IN /\ users' = u.users
          /\ assets' = (id :> AssetRow(u.id, data, now)) @@ assets
          /\ result' = [op |-> "create_asset", id |-> id]
    /\ prev' = Idle
    /\ UNCHANGED <<credits, redis, redis_state, provider, now, seen, inflight>>

\* create_credit
CreateCredit(device_id, data) ==
    /\ Cardinality(DOMAIN credits) < MaxCredits
    /\ ValidCreditCreate(data)
    /\ LET u == GetOrCreateUser(users, device_id)
           id == Cardinality(DOMAIN credits) + 1
       IN /\ users' = u.users
          /\ credits' = (id :> CreditRow(u.id, data, now)) @@ credits
          /\ result' = [op |-> "create_credit", id |-> id]
    /\ prev' = Idle
    /\ UNCHANGED <<assets, redis, redis_state, provider, now, seen, inflight>>

\* the asset handlers so far: the device that created each asset, and the
\* user each device got from its first _get_or_create_user
Recorded(s, device_id, u) ==
    [s EXCEPT !.first = IF device_id \in DOMAIN @ THEN @
                        ELSE (device_id :> u.id) @@ @]

\* what a handler did: the call, its user, whether it raised, and the tables
\* it found
Handled(op, asset_id, device_id, u, raised, update) ==
    [op |-> op, asset_id |-> asset_id, device_id |-> device_id, user_id |-> u.id,
     raised |-> raised, update |-> update,
     before |-> [users |-> users, assets |-> assets, now |-> now]]

\* _get_or_create_user, called by itself
CallGetOrCreateUser(device_id) ==
    /\ users' = GetOrCreateUser(users, device_id).users
    /\ result' = Handled("get_or_create_user", 0, device_id,
                         GetOrCreateUser(users, device_id), "", NoFields)
    /\ seen' = Recorded(seen, device_id, GetOrCreateUser(users, device_id))
    /\ prev' = Idle
    /\ UNCHANGED <<assets, credits, redis, redis_state, provider, now, inflight>>

\* create_asset, asset_id being the uuid4 the row gets: no id comes twice
CreateAssetAs(asset_id, device_id, data) ==
    /\ Cardinality(DOMAIN seen.created) < MaxAssets
    /\ asset_id \notin DOMAIN seen.created
    /\ ValidAssetCreate(data)
    /\ users' = GetOrCreateUser(users, device_id).users
    /\ assets' = (asset_id :> AssetRow(GetOrCreateUser(users, device_id).id,
                                       data, now)) @@ assets
    /\ result' = Handled("create_asset", asset_id, device_id,
                         GetOrCreateUser(users, device_id), "", data)
    /\ seen' = [Recorded(seen, device_id, GetOrCreateUser(users, device_id))
                   EXCEPT !.created = (asset_id :> device_id) @@ @]
    /\ prev' = Idle
    /\ UNCHANGED <<credits, redis, redis_state, provider, now, inflight>>

\* the select, had it not filtered on Asset.user_id
FoundAssetOfAnyUser(table, asset_id, user_id) == asset_id \in DOMAIN table

\* the select of the by-id handlers: the row of that id owned by the user
FoundAsset(table, asset_id, user_id) ==
    asset_id \in DOMAIN table /\ table[asset_id].user_id = user_id

\* what a by-id handler raises
NotFound(table, asset_id, user_id) ==
    IF FoundAsset(table, asset_id, user_id) THEN "" ELSE "AssetNotFoundError"

\* get_asset_by_id
GetAssetById(asset_id, device_id) ==
    /\ users' = GetOrCreateUser(users, device_id).users
    /\ result' = Handled("get_asset_by_id", asset_id, device_id,
                         GetOrCreateUser(users, device_id),
                         NotFound(assets, asset_id,
                                  GetOrCreateUser(users, device_id).id), NoFields)
    /\ seen' = Recorded(seen, device_id, GetOrCreateUser(users, device_id))
    /\ prev' = Idle
    /\ UNCHANGED <<assets, credits, redis, redis_state, provider, now, inflight>>

\* update_asset
UpdateAsset(asset_id, device_id, update) ==
    /\ ValidAssetUpdate(update)
    /\ users' = GetOrCreateUser(users, device_id).users
    /\ assets' = IF FoundAsset(assets, asset_id,
                               GetOrCreateUser(users, device_id).id)
                 THEN [assets EXCEPT ![asset_id] =
                          Flushed(@, WithFields(@, update), now)]
                 ELSE assets
    /\ result' = Handled("update_asset", asset_id, device_id,
                         GetOrCreateUser(users, device_id),
                         NotFound(assets, asset_id,
                                  GetOrCreateUser(users, device_id).id), update)
    /\ seen' = Recorded(seen, device_id, GetOrCreateUser(users, device_id))
    /\ prev' = Idle
    /\ UNCHANGED <<credits, redis, redis_state, provider, now, inflight>>

\* delete_asset
DeleteAsset(asset_id, device_id) ==
    /\ users' = GetOrCreateUser(users, device_id).users
    /\ assets' = IF FoundAsset(assets, asset_id,
                               GetOrCreateUser(users, device_id).id)
                 THEN [id \in DOMAIN assets \ {asset_id} |-> assets[id]]
                 ELSE assets
    /\ result' = Handled("delete_asset", asset_id, device_id,
                         GetOrCreateUser(users, device_id),
                         NotFound(assets, asset_id,
                                  GetOrCreateUser(users, device_id).id), NoFields)
    /\ seen' = Recorded(seen, device_id, GetOrCreateUser(users, device_id))
    /\ prev' = Idle
    /\ UNCHANGED <<credits, redis, redis_state, provider, now, inflight>>

\* the grouped view handed back, and the view before it while nothing
\* changed in between
GroupedView(op, device_id, base_currency, u, g) ==
    /\ users' = u.users
    /\ redis' = g.store
    /\ result' = [op |-> op, device_id |-> device_id,
                  base_currency |-> base_currency, views |-> g.views,
                  breakdown |-> g.breakdown]
    /\ prev' = IF result.op = op
                  /\ result.device_id = device_id
                  /\ result.base_currency = base_currency
               THEN result ELSE Idle

\* get_assets_grouped_by_category for the user u (order_by created_at desc)
AssetsGroupedFor(device_id, base_currency, u) ==
    GroupedView("assets_grouped", device_id, base_currency, u,
                GroupAndConvertItems(Reverse(Ascending(OwnedBy(assets, u.id))),
                                     assets, base_currency, redis_state, redis,
                                     provider, now))

\* get_assets_grouped_by_category
GetAssetsGrouped(device_id, base_currency) ==
    /\ AssetsGroupedFor(device_id, base_currency, GetOrCreateUser(users, device_id))
    /\ UNCHANGED <<assets, credits, redis_state, provider, now, seen, inflight>>

\* get_credits_grouped_by_category for the user u (order_by created_at desc)
CreditsGroupedFor(device_id, base_currency, u) ==
    GroupedView("credits_grouped", device_id, base_currency, u,
                GroupAndConvertItems(Reverse(Ascending(OwnedBy(credits, u.id))),
                                     credits, base_currency, redis_state, redis,
                                     provider, now))

\* get_credits_grouped_by_category
GetCreditsGrouped(device_id, base_currency) ==
    /\ CreditsGroupedFor(device_id, base_currency, GetOrCreateUser(users, device_id))
    /\ UNCHANGED <<assets, credits, redis_state, provider, now, seen, inflight>>

\* the PortfolioSummary built from the two category summaries a and c
PortfolioSummary(device_id, base_currency, u, a, c) ==
    /\ users' = u.users
    /\ redis' = c.store
    /\ result' = [op |-> "summary", device_id |-> device_id,
                  base_currency |-> base_currency,
                  asset_summary |-> a.summary, credit_summary |-> c.summary,
                  net_worth |-> DecSub(a.total_amount, c.total_amount),
                  last_updated |-> now,
                  asset_views |-> a.views, credit_views |-> c.views]

\* get_portfolio_summary once the assets are summarised: the credits
SummaryWithAssets(device_id, base_currency, u, a) ==
    PortfolioSummary(device_id, base_currency, u, a,
                     CalculateCategorySummary(Ascending(OwnedBy(credits, u.id)),
                                              credits, base_currency, redis_state,
                                              a.store, provider, now))

\* get_portfolio_summary for the user u
SummaryFor(device_id, base_currency, u) ==
    SummaryWithAssets(device_id, base_currency, u,
                      CalculateCategorySummary(Ascending(OwnedBy(assets, u.id)),
                                               assets, base_currency, redis_state,
                                               redis, provider, now))

\* get_portfolio_summary
GetPortfolioSummary(device_id, base_currency) ==
    /\ SummaryFor(device_id, base_currency, GetOrCreateUser(users, device_id))
    /\ prev' = Idle
    /\ UNCHANGED <<assets, credits, redis_state, provider, now, seen, inflight>>

\* a lookup that leaves its value in a reachable cache: it was a hit, or it
\* fetched and stored; no lookup leaves nothing to keep
LookupKept(trace) == Len(trace) \in {0, 1, 3}

\* what is remembered of a portfolio summary r computed on the cache state
\* rstate: its totals, and whether every price and rate it used is cached
SummaryRecord(r, rstate) ==
    [asset_summary |-> r.asset_summary, credit_summary |-> r.credit_summary,
     net_worth |-> r.net_worth,
     kept |-> /\ rstate = "up"
              /\ \A i \in DOMAIN r.asset_views :
                    /\ LookupKept(r.asset_views[i].price_trace)
                    /\ LookupKept(r.asset_views[i].fx_trace)
              /\ \A i \in DOMAIN r.credit_views :
                    /\ LookupKept(r.credit_views[i].price_trace)
                    /\ LookupKept(r.credit_views[i].fx_trace)]

\* the first summary of each base currency since the clock last moved
FirstInWindow(s, r, rstate) ==
    IF s = Idle
    THEN [op |-> "summaries",
          first |-> (r.base_currency :> SummaryRecord(r, rstate))]
    ELSE IF r.base_currency \in DOMAIN s.first THEN s
    ELSE [s EXCEPT !.first = (r.base_currency :> SummaryRecord(r, rstate)) @@ @]

\* get_portfolio_summary, remembered for the calls that follow it within the
\* TTL of the cache
GetPortfolioSummaryInWindow(device_id, base_currency) ==
    /\ SummaryFor(device_id, base_currency, GetOrCreateUser(users, device_id))
    /\ prev' = Idle
    /\ seen' = FirstInWindow(seen, result', redis_state)
    /\ UNCHANGED <<assets, credits, redis_state, provider, now, inflight>>

\* the query of refresh_prices: the user's market-tracked assets, those of
\* asset_ids when the list is given ({} stands for None and the empty list)
SelectedForRefresh(table, user_id, asset_ids) ==
    {id \in OwnedBy(table, user_id) :
        /\ table[id].is_market_tracked
        /\ asset_ids # {} => id \in asset_ids}

\* assets_data, had the loop not skipped the assets without symbol
AssetsDataOfAll(table, order) ==
    [i \in 1..Len(order) |-> AssetData(order[i], table[order[i]])]

\* assets_data: the selected assets that have a symbol
AssetsData(table, order) ==
    [i \in 1..Len(SelectSeq(order, LAMBDA id : table[id].symbol # NoSymbol)) |->
        AssetData(SelectSeq(order, LAMBDA id : table[id].symbol # NoSymbol)[i],
                  table[SelectSeq(order, LAMBDA id : table[id].symbol # NoSymbol)[i]])]

\* refresh_prices once price_results m is back: the rows, the commit and the
\* counts
RefreshCommit(device_id, asset_ids, base_currency, u, selected, assets_data, m) ==
    /\ users' = u.users
    /\ assets' = [id \in DOMAIN assets |->
                     IF id \in DOMAIN m.results
                     THEN RefreshedRow(assets[id], m.results[id], now)
                     ELSE assets[id]]
    /\ redis' = m.store
    /\ result' = [op |-> "refresh", device_id |-> device_id,
                  asset_ids |-> asset_ids, base_currency |-> base_currency,
                  selected |-> selected, price_results |-> m.results,
                  traces |-> m.traces, before |-> assets,
                  counts |->
                     [updated |-> Cardinality({id \in DOMAIN m.results :
                                                  m.results[id].success}),
                      failed |-> Cardinality({id \in DOMAIN m.results :
                                                 ~m.results[id].success}),
                      skipped |-> Cardinality(selected) - Len(assets_data)]]

\* refresh_prices with assets_data prepared: the market service
RefreshFetch(device_id, asset_ids, base_currency, u, selected, assets_data) ==
    RefreshCommit(device_id, asset_ids, base_currency, u, selected, assets_data,
                  UpdateMultipleAssets(assets_data, base_currency,
                                       InitConnections(redis_state),
                                       [results |-> <<>>, traces |-> <<>>,
                                        store |-> redis],
                                       provider, now))

\* refresh_prices for the user u
RefreshFor(device_id, asset_ids, base_currency, u) ==
    RefreshFetch(device_id, asset_ids, base_currency, u,
                 SelectedForRefresh(assets, u.id, asset_ids),
                 AssetsData(assets,
                            Ascending(SelectedForRefresh(assets, u.id, asset_ids))))

\* refresh_prices
RefreshPrices(device_id, asset_ids, base_currency) ==
    /\ RefreshFor(device_id, asset_ids, base_currency,
                  GetOrCreateUser(users, device_id))
    /\ prev' = Idle
    /\ UNCHANGED <<credits, redis_state, provider, now, seen, inflight>>

\* the argument asset_ids of refresh_prices: None, or a list of ids
NoAssetIds == [given |-> FALSE, ids |-> {}]
AssetIds(ids) == [given |-> TRUE, ids |-> ids]

\* "if asset_ids:" -- the ids the query is narrowed to, {} when it is not
IdsFilter(asset_ids) ==
    IF asset_ids.given /\ asset_ids.ids # {} THEN asset_ids.ids ELSE {}

\* refresh_prices(device_id, asset_ids, base_currency), the argument kept
RefreshPricesGiven(device_id, asset_ids, base_currency) ==
    /\ RefreshFor(device_id, IdsFilter(asset_ids), base_currency,
                  GetOrCreateUser(users, device_id))
    /\ prev' = Idle
    /\ seen' = [op |-> "refresh_call", asset_ids |-> asset_ids]
    /\ UNCHANGED <<credits, redis_state, provider, now, inflight>>

-----------------------------------------------------------------------------
(* The refresh, await by await: update_multiple_assets starts one task per
   asset of assets_data and gather lets them run in any interleaving of
   their cache reads, provider calls and cache writes *)

\* the cache key, the provider request and the fetch of a task's price lookup
PriceKey(asset_data) ==
    IF asset_data.category = "crypto" THEN "crypto_price:" \o asset_data.symbol
    ELSE "stock_price:" \o asset_data.symbol
PriceRequest(asset_data) ==
    IF asset_data.category = "crypto" THEN RateRequest(asset_data.symbol, "USD")
    ELSE QuoteRequest(asset_data.symbol)
PriceFetch(prov, asset_data) ==
    IF asset_data.category = "crypto"
    THEN FetchExchangeRate(prov, asset_data.symbol, "USD")
    ELSE FetchStockPrice(prov, asset_data.symbol)

\* the cache key of a task's exchange-rate lookup
RateKey(asset_data, base_currency) ==
    "exchange_rate:" \o asset_data.currency \o "_" \o base_currency

\* a task of gather before its first step
NewTask(asset_data) ==
    [pc |-> "price_get", data |-> asset_data, value |-> None, price |-> None,
     outcome |-> Failure, raised |-> FALSE, trace |-> <<>>]

\* the task has returned outcome, or raised
Done(task, outcome, raised, trace) ==
    [task EXCEPT !.pc = "done", !.value = None, !.outcome = outcome,
                 !.raised = raised, !.trace = trace]

\* market_price * Decimal(str(shares))
CurrentAmount(task, price) ==
    DecMul(price, ParseDecimal(FloatStr(task.data.shares)))

\* update_asset_price from the price on, up to its next await
AfterPrice(task, base_currency, price, trace) ==
    IF task.data.currency # base_currency
    THEN [task EXCEPT !.pc = "fx_get", !.value = None, !.price = price,
                      !.trace = trace]
    ELSE Done([task EXCEPT !.price = price],
              Outcome(TRUE, price, CurrentAmount(task, price)), FALSE, trace)

\* the step of a task and the cache afterwards
Stepped(task, store) == [task |-> task, store |-> store]

\* update_asset_price up to the cache read of its price, cached being what
\* _get_cached_price returns
PriceGet(task, base_currency, store, cached) ==
    IF task.data.symbol = NoSymbol \/ task.data.category \notin MarketCategories
    THEN Stepped(Done(task, Failure, FALSE, <<>>), store)
    ELSE IF Truthy(cached)
    THEN Stepped(AfterPrice(task, base_currency, cached,
                            <<"get " \o PriceKey(task.data)>>), store)
    ELSE Stepped([task EXCEPT !.pc = "price_fetch",
                              !.trace = <<"get " \o PriceKey(task.data)>>], store)

\* the provider call of the price lookup, fetched being what it returns
PriceFetched(task, store, fetched) ==
    IF fetched = Raised
    THEN Stepped(Done(task, Failure, TRUE,
                      Append(task.trace, "fetch " \o PriceRequest(task.data))),
                 store)
    ELSE IF Truthy(fetched)
    THEN Stepped([task EXCEPT !.pc = "price_set", !.value = fetched,
                              !.trace = Append(@, "fetch "
                                                  \o PriceRequest(task.data))],
                 store)
    ELSE Stepped(Done(task, Failure, FALSE,
                      Append(task.trace, "fetch " \o PriceRequest(task.data))),
                 store)

\* the cache read of the exchange rate, cached being what it returns
RateGet(task, base_currency, store, cached) ==
    IF Truthy(cached)
    THEN Stepped(Done(task,
                      Outcome(TRUE, task.price,
                              DecMul(CurrentAmount(task, task.price), cached)),
                      FALSE,
                      Append(task.trace,
                             "get " \o RateKey(task.data, base_currency))),
                 store)
    ELSE Stepped([task EXCEPT !.pc = "fx_fetch",
                              !.trace = Append(@, "get "
                                                  \o RateKey(task.data,
                                                             base_currency))],
                 store)

\* the provider call of the exchange rate, fetched being what it returns
RateFetched(task, base_currency, store, fetched) ==
    IF fetched = Raised
    THEN Stepped(Done(task, Failure, TRUE,
                      Append(task.trace,
                             "fetch " \o RateRequest(task.data.currency,
                                                     base_currency))),
                 store)
    ELSE IF Truthy(fetched)
    THEN Stepped([task EXCEPT !.pc = "fx_set", !.value = fetched,
                              !.trace = Append(@, "fetch "
                                                  \o RateRequest(task.data.currency,
                                                                 base_currency))],
                 store)
    ELSE Stepped(Done(task,
                      Outcome(TRUE, task.price, CurrentAmount(task, task.price)),
                      FALSE,
                      Append(task.trace,
                             "fetch " \o RateRequest(task.data.currency,
                                                     base_currency))),
                 store)

\* one task runs from one await to the next: [task, store]
TaskStepped(task, base_currency, client, store, prov, t) ==
    CASE task.pc = "price_get" ->
            PriceGet(task, base_currency, store,
                     GetCachedPrice(client, store, PriceKey(task.data), t))
      [] task.pc = "price_fetch" ->
            PriceFetched(task, store, PriceFetch(prov, task.data))
      [] task.pc = "price_set" ->
            Stepped(AfterPrice(task, base_currency, task.value,
                               Append(task.trace, "set " \o PriceKey(task.data))),
                    SetCachedPrice(client, store, PriceKey(task.data), task.value,
                                   CacheTtlMarketPrices, t))
      [] task.pc = "fx_get" ->
            RateGet(task, base_currency, store,
                    GetCachedPrice(client, store,
                                   RateKey(task.data, base_currency), t))
      [] task.pc = "fx_fetch" ->
            RateFetched(task, base_currency, store,
                        FetchExchangeRate(prov, task.data.currency, base_currency))
      [] OTHER ->
            Stepped(Done(task,
                         Outcome(TRUE, task.price,
                                 DecMul(CurrentAmount(task, task.price),
                                        task.value)),
                         FALSE,
                         Append(task.trace,
                                "set " \o RateKey(task.data, base_currency))),
                    SetCachedPrice(client, store,
                                   RateKey(task.data, base_currency), task.value,
                                   CacheTtlExchangeRates, t))

\* the dict update_multiple_assets returns, had one exception failed them all
ResultsFailingTogether(tasks) ==
    [id \in DOMAIN tasks |->
        IF \E other \in DOMAIN tasks : tasks[other].raised
        THEN Failure ELSE tasks[id].outcome]

\* the dict update_multiple_assets returns once gather is back: a task that
\* raised is mapped to (False, None, None)
Results(tasks) ==
    [id \in DOMAIN tasks |->
        IF tasks[id].raised THEN Failure ELSE tasks[id].outcome]

\* refresh_prices up to the gather of update_multiple_assets
GatherStarted(device_id, base_currency, u, selected, assets_data) ==
    /\ users' = u.users
    /\ inflight' = [op |-> "gather", device_id |-> device_id,
                    base_currency |-> base_currency, user |-> u,
                    selected |-> selected, assets_data |-> assets_data,
                    client |-> InitConnections(redis_state),
                    tasks |-> [id \in {assets_data[i].id :
                                          i \in DOMAIN assets_data} |->
                                 NewTask(AssetData(id, assets[id]))]]
    /\ seen' = [op |-> "batch", store |-> redis, writes |-> <<>>]

\* refresh_prices of all market-tracked assets, up to the gather
StartRefresh(device_id, base_currency) ==
    /\ inflight = Idle
    /\ GatherStarted(device_id, base_currency, GetOrCreateUser(users, device_id),
                     SelectedForRefresh(assets,
                                        GetOrCreateUser(users, device_id).id, {}),
                     AssetsData(assets,
                         Ascending(SelectedForRefresh(assets,
                                       GetOrCreateUser(users, device_id).id, {}))))
    /\ result' = Idle
    /\ prev' = Idle
    /\ UNCHANGED <<assets, credits, redis, redis_state, provider, now>>

\* the cache writes so far, in order, with the task that made each, the key
\* and the value it wrote
Written(s, id, task, base_currency) ==
    IF task.pc \in {"price_set", "fx_set"}
    THEN [s EXCEPT !.writes =
             Append(@, [id |-> id, pc |-> task.pc,
                        key |-> IF task.pc = "price_set" THEN PriceKey(task.data)
                                ELSE RateKey(task.data, base_currency),
                        value |-> task.value])]
    ELSE s

\* the state after the step n of task id
TaskMoved(id, n) ==
    /\ inflight' = [inflight EXCEPT !.tasks[id] = n.task]
    /\ redis' = n.store

\* the event loop resumes the task of asset id
TaskStep(id) ==
    /\ inflight # Idle
    /\ id \in DOMAIN inflight.tasks
    /\ inflight.tasks[id].pc # "done"
    /\ TaskMoved(id, TaskStepped(inflight.tasks[id], inflight.base_currency,
                                 inflight.client, redis, provider, now))
    /\ seen' = Written(seen, id, inflight.tasks[id], inflight.base_currency)
    /\ UNCHANGED <<users, assets, credits, redis_state, provider, now, result, prev>>

\* gather returns: refresh_prices writes the rows, commits and counts
FinishRefresh ==
    /\ inflight # Idle
    /\ \A id \in DOMAIN inflight.tasks : inflight.tasks[id].pc = "done"
    /\ RefreshCommit(inflight.device_id, {}, inflight.base_currency,
                     inflight.user, inflight.selected, inflight.assets_data,
                     [results |-> Results(inflight.tasks),
                      traces |-> [id \in DOMAIN inflight.tasks |->
                                     inflight.tasks[id].trace],
                      store |-> redis])
    /\ inflight' = Idle
    /\ prev' = Idle
    /\ UNCHANGED <<credits, redis_state, provider, now, seen>>

-----------------------------------------------------------------------------
(* The environment *)

\* the provider's answers to the requests reqs change
SetProvider(reqs, mode) ==
    /\ provider' = [req \in DOMAIN provider |->
                       IF req \in reqs THEN Feed(mode, req) ELSE provider[req]]
    /\ provider' # provider
    /\ result' = Idle
    /\ prev' = Idle
    /\ UNCHANGED <<users, assets, credits, redis, redis_state, now, seen, inflight>>

\* the market moves: the provider answers req with another quote from now on
SetQuote(req, quote) ==
    /\ provider' = [provider EXCEPT ![req] = Ok(quote)]
    /\ provider' # provider
    /\ result' = Idle
    /\ prev' = Idle
    /\ UNCHANGED <<users, assets, credits, redis, redis_state, now, seen, inflight>>

\* Redis goes down, comes back, or starts failing its commands
SetRedisState(state) ==
    /\ redis_state # state
    /\ redis_state' = state
    /\ result' = Idle
    /\ prev' = Idle
    /\ UNCHANGED <<users, assets, credits, redis, provider, now, seen, inflight>>

\* the calls of s that still matter at time t: the _set_cached_price calls
\* and the lookups that cached a value whose TTL has not elapsed; summaries
\* are out of every TTL window, and what the asset handlers did does not age
StillInTtl(s, t) ==
    IF s.op = "sets"
    THEN [op |-> "sets",
          called |-> [key \in {k \in DOMAIN s.called : t < s.called[k].until} |->
                         s.called[key]],
          stored |-> [key \in {k \in DOMAIN s.stored : t < s.stored[k].until} |->
                         s.stored[key]]]
    ELSE IF s.op = "lookups"
    THEN [s EXCEPT !.cached = [key \in {k \in DOMAIN @ : t < @[k].until} |-> @[key]]]
    ELSE IF s.op = "crud" THEN s
    ELSE Idle

\* time passes; Redis drops the entries that expire
Tick ==
    /\ now < MaxTime
    /\ now' = now + 1
    /\ redis' = [key \in {k \in DOMAIN redis : now + 1 < redis[k].expires} |->
                    redis[key]]
    /\ result' = Idle
    /\ prev' = Idle
    /\ seen' = StillInTtl(seen, now + 1)
    /\ UNCHANGED <<users, assets, credits, redis_state, provider, inflight>>

-----------------------------------------------------------------------------
(* The service: holdings are created, viewed, summarised and refreshed while
   the provider answers and Redis is up *)

Init ==
    /\ users = <<>>
    /\ assets = <<>>
    /\ credits = <<>>
    /\ redis = <<>>
    /\ redis_state = "up"
    /\ provider = InitialProvider
    /\ now = 0
    /\ result = Idle
    /\ prev = Idle
    /\ seen = Idle
    /\ inflight = Idle

Next ==
    \/ \E d \in Devices, data \in AssetCreateInputs : CreateAsset(d, data)
    \/ \E d \in Devices, data \in CreditCreateInputs : CreateCredit(d, data)
    \/ \E d \in Devices, b \in BaseCurrencies : GetAssetsGrouped(d, b)
    \/ \E d \in Devices, b \in BaseCurrencies : GetCreditsGrouped(d, b)
    \/ \E d \in Devices, b \in BaseCurrencies : GetPortfolioSummary(d, b)
    \/ \E d \in Devices, id \in 0..MaxAssets, b \in BaseCurrencies :
          RefreshPrices(d, IF id = 0 THEN {} ELSE {id}, b)

Spec == Init /\ [][Next]_vars

(* The valuation of one holding, created by a request AssetCreate or
   CreditCreate accepts, under every state of the cache and the provider *)

InitValue ==
    /\ users = ("d1" :> 1)
    /\ \/ /\ \E data \in HoldingInputs : assets = (1 :> AssetRow(1, data, 0))
          /\ credits = <<>>
       \/ /\ assets = <<>>
          /\ \E data \in DebtInputs : credits = (1 :> CreditRow(1, data, 0))
    /\ redis = <<>>
    /\ redis_state = "up"
    /\ provider = InitialProvider
    /\ now = 0
    /\ result = Idle
    /\ prev = Idle
    /\ seen = Idle
    /\ inflight = Idle

NextValue ==
    \/ \E b \in BaseCurrencies : GetAssetsGrouped("d1", b)
    \/ \E b \in BaseCurrencies : GetCreditsGrouped("d1", b)
    \/ \E b \in BaseCurrencies : GetPortfolioSummary("d1", b)
    \/ \E reqs \in {PriceRequests, RateRequests}, mode \in FeedModes :
          SetProvider(reqs, mode)
    \/ \E state \in {"up", "down", "flaky"} : SetRedisState(state)
    \/ Tick

SpecValue == InitValue /\ [][NextValue]_vars

(* The refresh of a portfolio of assets created by requests AssetCreate
   accepts, as time passes and while one of the provider's feeds at a time
   is not live, Redis being up *)

InitRefresh ==
    /\ users = ("d1" :> 1)
    /\ \E n \in 1..MaxAssets : \E data \in [1..n -> RefreshInputs] :
          assets = [id \in 1..n |-> AssetRow(1, data[id], 0)]
    /\ credits = <<>>
    /\ redis = <<>>
    /\ redis_state = "up"
    /\ provider = InitialProvider
    /\ now = 0
    /\ result = Idle
    /\ prev = Idle
    /\ seen = Idle
    /\ inflight = Idle

NextRefresh ==
    \/ \E id \in 0..MaxAssets, b \in BaseCurrencies :
          RefreshPrices("d1", IF id = 0 THEN {} ELSE {id}, b)
    \/ \E reqs \in {PriceRequests, RateRequests}, mode \in FeedModes :
          /\ \A req \in DOMAIN provider \ reqs : provider[req] = InitialProvider[req]
          /\ SetProvider(reqs, mode)
    \/ Tick

SpecRefresh == InitRefresh /\ [][NextRefresh]_vars

(* The price cache by itself: _set_cached_price and _get_cached_price called
   with any key, price and TTL while the state of Redis changes and time
   passes *)

CacheKeys == {"stock_price:AAPL", "exchange_rate:USD_CNY"}
CachePrices == {Dec(200, 0), Dec(70, -1), Dec(0, 0)}

\* the TTLs a deployment may configure, in units of the clock
CacheTtls == {CacheTtlMarketPrices, CacheTtlMarketPrices + CacheTtlExchangeRates}

\* the call set(key, price, ttl) made at time t, remembered among all calls
\* and, when the client could store it, among the stored ones
AfterSet(s, client, key, price, ttl, t) ==
    [op |-> "sets",
     called |-> (key :> [price |-> price, until |-> t + ttl]) @@ s.called,
     stored |-> IF client = "up"
                THEN (key :> [price |-> price, until |-> t + ttl]) @@ s.stored
                ELSE s.stored]

\* a call of _set_cached_price
SetPrice(key, price, ttl) ==
    /\ redis' = SetCachedPrice(InitConnections(redis_state), redis, key, price,
                               ttl, now)
    /\ result' = [op |-> "cache_set", key |-> key]
    /\ seen' = AfterSet(seen, InitConnections(redis_state), key, price, ttl, now)
    /\ prev' = Idle
    /\ UNCHANGED <<users, assets, credits, redis_state, provider, now, inflight>>

\* a call of _get_cached_price
GetPrice(key) ==
    /\ result' = [op |-> "cache_get", key |-> key,
                  ret |-> GetCachedPrice(InitConnections(redis_state), redis,
                                         key, now)]
    /\ prev' = Idle
    /\ UNCHANGED <<users, assets, credits, redis, redis_state, provider, now,
                   seen, inflight>>

InitCache ==
    /\ users = <<>>
    /\ assets = <<>>
    /\ credits = <<>>
    /\ redis = <<>>
    /\ redis_state = "up"
    /\ provider = InitialProvider
    /\ now = 0
    /\ result = Idle
    /\ prev = Idle
    /\ seen = [op |-> "sets", called |-> <<>>, stored |-> <<>>]
    /\ inflight = Idle

NextCache ==
    \/ \E key \in CacheKeys, price \in CachePrices, ttl \in CacheTtls :
          SetPrice(key, price, ttl)
    \/ \E key \in CacheKeys : GetPrice(key)
    \/ \E state \in {"up", "down", "flaky"} : SetRedisState(state)
    \/ Tick

SpecCache == InitCache /\ [][NextCache]_vars

(* Portfolio summaries of one asset and at most one debt, repeated while the
   provider's feeds and the state of Redis change and time passes *)

WindowInputs ==
    AssetCreates({"stock"}, {Dec(1000, 0)}, {"USD"}, {"AAPL"}, {Dec(3, 0)}, {TRUE})
    \cup AssetCreates({"cash"}, {Dec(1000, 0)}, {"EUR"}, {NoSymbol}, {None}, {FALSE})

InitWindow ==
    /\ users = ("d1" :> 1)
    /\ \E data \in WindowInputs : assets = (1 :> AssetRow(1, data, 0))
    /\ \/ credits = <<>>
       \/ \E data \in DebtInputs : credits = (1 :> CreditRow(1, data, 0))
    /\ redis = <<>>
    /\ redis_state = "up"
    /\ provider = InitialProvider
    /\ now = 0
    /\ result = Idle
    /\ prev = Idle
    /\ seen = Idle
    /\ inflight = Idle

NextWindow ==
    \/ \E b \in BaseCurrencies : GetPortfolioSummaryInWindow("d1", b)
    \/ \E reqs \in {PriceRequests, RateRequests}, mode \in FeedModes :
          SetProvider(reqs, mode)
    \/ \E state \in {"up", "down", "flaky"} : SetRedisState(state)
    \/ Tick

SpecWindow == InitWindow /\ [][NextWindow]_vars

(* The refresh of a portfolio of market-tracked positions, await by await,
   the provider's answers changing between the refreshes and Redis being up *)

\* requests accepted by AssetCreate: three shares of AAPL, three bitcoins
GatherInputs ==
    AssetCreates({"stock"}, {Dec(300, 0)}, {"USD"}, {"AAPL"}, {Dec(3, 0)}, {TRUE})
    \cup AssetCreates({"crypto"}, {Dec(300, 0)}, {"USD"}, {"BTC"}, {Dec(3, 0)},
                      {TRUE})

\* the feeds the tasks use, and what they do when they are not live
GatherFeeds ==
    {{QuoteRequest("AAPL")}, {RateRequest("BTC", "USD")},
     {RateRequest("USD", "CNY")}}
GatherModes == {"live", "malformed", "rate_limit"}

InitGather ==
    /\ users = ("d1" :> 1)
    /\ \E n \in 1..MaxAssets : \E data \in [1..n -> GatherInputs] :
          assets = [id \in 1..n |-> AssetRow(1, data[id], 0)]
    /\ credits = <<>>
    /\ redis = <<>>
    /\ redis_state = "up"
    /\ provider = InitialProvider
    /\ now = 0
    /\ result = Idle
    /\ prev = Idle
    /\ seen = Idle
    /\ inflight = Idle

NextGather ==
    \/ \E b \in BaseCurrencies : StartRefresh("d1", b)
    \/ \E id \in 1..MaxAssets : TaskStep(id)
    \/ FinishRefresh
    \/ \E reqs \in GatherFeeds, mode \in GatherModes :
          /\ inflight = Idle
          /\ SetProvider(reqs, mode)

SpecGather == InitGather /\ [][NextGather]_vars

-----------------------------------------------------------------------------
(* SpecRace: the refresh of positions in the same stock on a cold cache,
   their tasks looking up the same keys while the market moves *)

\* positions in AAPL, three shares each
RaceInputs ==
    AssetCreates({"stock"}, {Dec(300, 0)}, {"USD"}, {"AAPL"}, {Dec(3, 0)}, {TRUE})

\* the requests the tasks make, and the quotes the provider may answer
RaceRequests == {QuoteRequest("AAPL"), RateRequest("USD", "CNY")}
RaceQuotes == {Str200, Str8}

InitRace ==
    /\ users = ("d1" :> 1)
    /\ \E n \in 1..MaxAssets : \E data \in [1..n -> RaceInputs] :
          assets = [id \in 1..n |-> AssetRow(1, data[id], 0)]
    /\ credits = <<>>
    /\ redis = <<>>
    /\ redis_state = "up"
    /\ provider = InitialProvider
    /\ now = 0
    /\ result = Idle
    /\ prev = Idle
    /\ seen = Idle
    /\ inflight = Idle

NextRace ==
    \/ \E b \in BaseCurrencies :
          /\ redis = <<>>
          /\ StartRefresh("d1", b)
    \/ \E id \in 1..MaxAssets : TaskStep(id)
    \/ FinishRefresh
    \/ \E req \in RaceRequests, quote \in RaceQuotes :
          /\ inflight # Idle
          /\ SetQuote(req, quote)

SpecRace == InitRace /\ [][NextRace]_vars

-----------------------------------------------------------------------------
(* SpecOrder: the portfolio summary in CNY of market-tracked holdings in USD,
   the query returning the rows in any order; the prices and the rate the
   lookups give are fixed *)

\* the holdings created: three crypto positions and a stock position, in USD
OrderInputs ==
    {[category |-> "crypto", symbol |-> "BTC", currency |-> "USD"],
     [category |-> "crypto", symbol |-> "ETH", currency |-> "USD"],
     [category |-> "crypto", symbol |-> "LTC", currency |-> "USD"],
     [category |-> "stock", symbol |-> "AAPL", currency |-> "USD"]}

\* the converted amount of each holding, price * Decimal(str(shares)) and then
\* amount * exchange_rate, each product rounded to the context's precision,
\* at the USD to CNY rate 7.12345678:
\*   BTC   292.125656 shares at 10644.35725732
\*   ETH   586.190091 shares at  5163.29643806
\*   LTC   482.757922 shares at 25661.65529219
\*   AAPL  3.000000 shares at 200.0000
OrderValues ==
    ("BTC" :> Wide(<<2, 2, 1, 5, 0, 3, 1, 6, 5, 2, 9, 3, 4, 1,
                     4, 7, 6, 4, 6, 3, 9, 9, 5, 1, 6, 1, 0, 2>>, -20))
    @@ ("ETH" :> Wide(<<2, 1, 5, 6, 0, 3, 7, 5, 7, 9, 0, 6, 8, 5,
                        9, 4, 9, 1, 3, 2, 4, 6, 4, 1, 8, 3, 2, 6>>, -20))
    @@ ("LTC" :> Wide(<<8, 8, 2, 4, 7, 9, 9, 9, 6, 3, 4, 2, 4, 3,
                        6, 3, 3, 2, 8, 8, 9, 8, 4, 4, 8, 4, 8, 4>>, -20))
    @@ ("AAPL" :> Wide(<<4, 2, 7, 4, 0, 7, 4, 0, 6, 8, 0,
                         0, 0, 0, 0, 0, 0, 0, 0, 0, 0, 0>>, -18))

\* get_portfolio_summary(device_id, "CNY"), the rows coming in the given order
GetPortfolioSummaryInOrder(order) ==
    /\ result' = SummaryInContext(assets, order, OrderValues)
    /\ UNCHANGED <<users, assets, credits, redis, redis_state, provider, now,
                   prev, seen, inflight>>

InitOrder ==
    /\ users = ("d1" :> 1)
    /\ \E n \in 1..MaxHoldings : \E data \in [1..n -> OrderInputs] :
          assets = data
    /\ credits = <<>>
    /\ redis = <<>>
    /\ redis_state = "up"
    /\ provider = InitialProvider
    /\ now = 0
    /\ result = Idle
    /\ prev = Idle
    /\ seen = Idle
    /\ inflight = Idle

NextOrder ==
    \E order \in Permutations(DOMAIN assets) : GetPortfolioSummaryInOrder(order)

SpecOrder == InitOrder /\ [][NextOrder]_vars

-----------------------------------------------------------------------------
(* The asset handlers of two devices: assets are created, read, updated and
   deleted by id *)

CrudDevices == {"d1", "d2"}

\* requests accepted by AssetCreate: cash with the market-tracked flag unset
\* or set, and a market-tracked stock position
CrudCreateInputs ==
    AssetCreates({"cash"}, {Dec(300, 0)}, {"USD"}, {NoSymbol}, {None}, BOOLEAN)
    \cup AssetCreates({"stock"}, {Dec(300, 0)}, {"USD"}, {"AAPL"}, {Dec(3, 0)},
                      {TRUE})

\* update requests: a new amount, the market-tracked flag set, and a symbol
\* sent with a category that has none (AssetUpdate rejects it).  Requests
\* that null a NOT NULL column are not among them
CrudUpdateInputs ==
    {[amount |-> Dec(250, 0)], [is_market_tracked |-> TRUE],
     [category |-> "cash", symbol |-> "AAPL"]}

\* no asset created yet, no device seen yet
NoHistory == [op |-> "crud", created |-> <<>>, first |-> <<>>]

InitCrud ==
    /\ users = <<>>
    /\ assets = <<>>
    /\ credits = <<>>
    /\ redis = <<>>
    /\ redis_state = "up"
    /\ provider = InitialProvider
    /\ now = 0
    /\ result = Idle
    /\ prev = Idle
    /\ seen = NoHistory
    /\ inflight = Idle

NextCrud ==
    \/ \E d \in CrudDevices : CallGetOrCreateUser(d)
    \/ \E d \in CrudDevices : \E data \in CrudCreateInputs :
          CreateAssetAs(Cardinality(DOMAIN seen.created) + 1, d, data)
    \/ \E id \in 1..MaxAssets : \E d \in CrudDevices : GetAssetById(id, d)
    \/ \E id \in 1..MaxAssets : \E d \in CrudDevices :
          \E update \in CrudUpdateInputs : UpdateAsset(id, d, update)
    \/ \E id \in 1..MaxAssets : \E d \in CrudDevices : DeleteAsset(id, d)

SpecCrud == InitCrud /\ [][NextCrud]_vars

-----------------------------------------------------------------------------
(* The updates of one device's assets over time *)

\* requests accepted by AssetCreate: cash, and a market-tracked stock position
UpdateCreateInputs ==
    {data \in RefreshInputs : data.symbol = NoSymbol <=> data.category = "cash"}

\* update requests: a new amount, symbol and shares nulled, and nothing at all
UpdateInputs ==
    {[amount |-> Dec(250, 0)], [symbol |-> NoSymbol, shares |-> None], NoFields}

InitUpdate == InitCrud

\* the assets are there before the clock moves
NextUpdate ==
    \/ /\ now = 0
       /\ \E data \in UpdateCreateInputs :
             CreateAssetAs(Cardinality(DOMAIN seen.created) + 1, "d1", data)
    \/ \E id \in 1..MaxAssets : \E update \in UpdateInputs :
          UpdateAsset(id, "d1", update)
    \/ Tick

SpecUpdate == InitUpdate /\ [][NextUpdate]_vars

-----------------------------------------------------------------------------
(* Lookups one after another: get_stock_price and get_exchange_rate are
   called while quotes move, the provider fails, time passes and Redis comes
   and goes *)

\* whether the lookup with trace made the request entry
Made(trace, entry) == \E i \in DOMAIN trace : trace[i] = entry

\* how a lookup of req ended: served from the cache, fetched, or left
\* without a price
Ended(r, req) ==
    IF ~Made(r.trace, "fetch " \o req) THEN "hit"
    ELSE IF Truthy(r.ret) THEN "fetched"
    ELSE "unavailable"

\* the lookups so far: per key the value the last lookup that fetched one
\* stored in a reachable cache with the time its TTL ends, and how the last
\* lookup of the key ended and with which client
Noted(s, key, req, client, r, ttl, t) ==
    [op |-> "lookups",
     cached |-> IF Ended(r, req) = "fetched" /\ client = "up"
                THEN (key :> [value |-> r.ret, until |-> t + ttl]) @@ s.cached
                ELSE s.cached,
     last |-> (key :> [ended |-> Ended(r, req), client |-> client]) @@ s.last]

\* the lookup r of key came back
Looked(key, req, client, r, ttl) ==
    /\ redis' = r.store
    /\ result' = [op |-> "lookup", key |-> key, req |-> req, client |-> client,
                  ret |-> r.ret, trace |-> r.trace,
                  before |-> [store |-> redis, cached |-> seen.cached,
                              last |-> seen.last, now |-> now]]
    /\ seen' = Noted(seen, key, req, client, r, ttl, now)
    /\ prev' = Idle
    /\ UNCHANGED <<users, assets, credits, redis_state, provider, now, inflight>>

\* get_stock_price(symbol), the service entered for this call
LookupStockPrice(symbol) ==
    Looked("stock_price:" \o symbol, QuoteRequest(symbol),
           InitConnections(redis_state),
           GetStockPrice(InitConnections(redis_state), redis, provider, symbol, now),
           CacheTtlMarketPrices)

\* get_exchange_rate(from, to), the service entered for this call
LookupExchangeRate(from, to) ==
    Looked("exchange_rate:" \o from \o "_" \o to, RateRequest(from, to),
           InitConnections(redis_state),
           GetExchangeRate(InitConnections(redis_state), redis, provider, from, to,
                           now),
           CacheTtlExchangeRates)

\* the quote of AAPL moves between 200 and 8, the rate stays
LookupQuotes == {Str200, Str8}

InitLookup ==
    /\ users = <<>>
    /\ assets = <<>>
    /\ credits = <<>>
    /\ redis = <<>>
    /\ redis_state = "up"
    /\ provider = InitialProvider
    /\ now = 0
    /\ result = Idle
    /\ prev = Idle
    /\ seen = [op |-> "lookups", cached |-> <<>>, last |-> <<>>]
    /\ inflight = Idle

NextLookup ==
    \/ LookupStockPrice("AAPL")
    \/ LookupExchangeRate("USD", "CNY")
    \/ \E quote \in LookupQuotes : SetQuote(QuoteRequest("AAPL"), quote)
    \/ \E req \in {QuoteRequest("AAPL"), RateRequest("USD", "CNY")} :
          \E mode \in FeedModes : SetProvider({req}, mode)
    \/ \E state \in {"up", "down", "flaky"} : SetRedisState(state)
    \/ Tick

SpecLookup == InitLookup /\ [][NextLookup]_vars

-----------------------------------------------------------------------------
(* Refreshes of two devices, of all assets and of the assets of a list *)

InitSelect ==
    /\ users = ("d1" :> 1) @@ ("d2" :> 2)
    /\ \E n \in 1..MaxAssets : \E data \in [1..n -> RefreshInputs] :
          \E owner \in [1..n -> {1, 2}] :
             assets = [id \in 1..n |-> AssetRow(owner[id], data[id], 0)]
    /\ credits = <<>>
    /\ redis = <<>>
    /\ redis_state = "up"
    /\ provider = InitialProvider
    /\ now = 0
    /\ result = Idle
    /\ prev = Idle
    /\ seen = Idle
    /\ inflight = Idle

NextSelect ==
    \/ \E d \in CrudDevices : RefreshPricesGiven(d, NoAssetIds, "USD")
    \/ \E d \in CrudDevices : \E ids \in SUBSET (1..MaxAssets) :
          RefreshPricesGiven(d, AssetIds(ids), "USD")
    \/ \E mode \in {"live", "rate_limit"} : SetProvider(PriceRequests, mode)

SpecSelect == InitSelect /\ [][NextSelect]_vars

-----------------------------------------------------------------------------
(* Refresh and valuation of the same holdings at fixed prices *)

\* requests accepted by AssetCreate: market-tracked positions of three shares
\* in a stock, a crypto currency and gold (held as "GLD")
SnapshotInputs ==
    AssetCreates({"stock"}, {Dec(300, 0)}, {"USD"}, {"AAPL"}, {Dec(3, 0)}, {TRUE})
    \cup AssetCreates({"crypto"}, {Dec(300, 0)}, {"USD"}, {"BTC"}, {Dec(3, 0)},
                      {TRUE})
    \cup AssetCreates({"gold"}, {Dec(300, 0)}, {"USD"}, {"GLD"}, {Dec(3, 0)}, {TRUE})

\* the provider also quotes the stock symbol GLD, at 8
SnapshotProvider == (QuoteRequest("GLD") :> Ok(Str8)) @@ InitialProvider

InitSnapshot ==
    /\ users = ("d1" :> 1)
    /\ \E n \in 1..MaxAssets : \E data \in [1..n -> SnapshotInputs] :
          assets = [id \in 1..n |-> AssetRow(1, data[id], 0)]
    /\ credits = <<>>
    /\ redis = <<>>
    /\ redis_state = "up"
    /\ provider = SnapshotProvider
    /\ now = 0
    /\ result = Idle
    /\ prev = Idle
    /\ seen = Idle
    /\ inflight = Idle

NextSnapshot ==
    \/ \E b \in BaseCurrencies : RefreshPrices("d1", {}, b)
    \/ \E b \in BaseCurrencies : GetAssetsGrouped("d1", b)
    \/ Tick

SpecSnapshot == InitSnapshot /\ [][NextSnapshot]_vars

-----------------------------------------------------------------------------
(* _get_or_create_user, await by await: two requests, each with a database
   session of its own, run from the select to the commit in any interleaving *)

Requests == {"r1", "r2"}

\* a request that is not in _get_or_create_user
Waiting == [pc |-> "waiting", device_id |-> "", user_id |-> 0, raised |-> ""]

\* a request enters _get_or_create_user(device_id)
EnterGetOrCreateUser(r, device_id) ==
    /\ inflight.reqs[r].pc \in {"waiting", "done"}
    /\ inflight' = [inflight EXCEPT !.reqs[r] =
                       [pc |-> "select", device_id |-> device_id, user_id |-> 0,
                        raised |-> ""]]
    /\ UNCHANGED <<users, assets, credits, redis, redis_state, provider, now,
                   result, prev, seen>>

\* await db.execute(select(User).where(User.device_id == device_id)): the
\* user is returned when there is one, else the request goes on to insert
SelectUser(r) ==
    /\ inflight.reqs[r].pc = "select"
    /\ inflight' = [inflight EXCEPT !.reqs[r] =
                       IF @.device_id \in DOMAIN users
                       THEN [pc |-> "done", device_id |-> @.device_id,
                             user_id |-> users[@.device_id], raised |-> ""]
                       ELSE [@ EXCEPT !.pc = "commit"]]
    /\ UNCHANGED <<users, assets, credits, redis, redis_state, provider, now,
                   result, prev, seen>>

\* the INSERT of the commit: the unique index on users.device_id refuses a
\* second row for the device and the commit raises IntegrityError
CommitUser(r) ==
    /\ inflight.reqs[r].pc = "commit"
    /\ IF inflight.reqs[r].device_id \in DOMAIN users
       THEN /\ inflight' = [inflight EXCEPT !.reqs[r] =
                               [@ EXCEPT !.pc = "done",
                                         !.raised = "IntegrityError"]]
            /\ users' = users
       ELSE /\ inflight' = [inflight EXCEPT !.reqs[r] =
                               [@ EXCEPT !.pc = "done",
                                         !.user_id = Cardinality(DOMAIN users) + 1]]
            /\ users' = (inflight.reqs[r].device_id :> Cardinality(DOMAIN users) + 1)
                           @@ users
    /\ UNCHANGED <<assets, credits, redis, redis_state, provider, now, result,
                   prev, seen>>

InitUsers ==
    /\ users = <<>>
    /\ assets = <<>>
    /\ credits = <<>>
    /\ redis = <<>>
    /\ redis_state = "up"
    /\ provider = InitialProvider
    /\ now = 0
    /\ result = Idle
    /\ prev = Idle
    /\ seen = Idle
    /\ inflight = [op |-> "requests", reqs |-> [r \in Requests |-> Waiting]]

NextUsers ==
    \/ \E r \in Requests : \E d \in CrudDevices : EnterGetOrCreateUser(r, d)
    \/ \E r \in Requests : SelectUser(r)
    \/ \E r \in Requests : CommitUser(r)

SpecUsers == InitUsers /\ [][NextUsers]_vars

-----------------------------------------------------------------------------
(* Properties of the valuation of one holding (SpecValue) *)

\* the items the last handler valued, as it saw them
Views ==
    CASE result.op \in {"assets_grouped", "credits_grouped"} -> result.views
      [] result.op = "summary" -> result.asset_views \o result.credit_views
      [] OTHER -> <<>>

\* a market-tracked holding with symbol, share count and market category
IsTrackedHolding(v) ==
    /\ v.tracked
    /\ v.symbol # NoSymbol
    /\ Truthy(v.shares)
    /\ v.category \in MarketCategories

\* C1: a holding whose native currency is the requested base currency is
\* converted to its native amount unchanged at rate exactly 1.0, and neither
\* the cache nor the provider is asked for an exchange rate.
C1_SameCurrencyIsIdentity ==
    \A i \in DOMAIN Views :
        Views[i].currency = result.base_currency =>
            /\ Views[i].converted_amount = Views[i].native
            /\ Views[i].conversion_rate = Dec(10, -1)
            /\ Views[i].fx = NoLookup
            /\ Views[i].fx_trace = <<>>

\* a position of 3 shares at price 200 held in dollars, viewed in dollars
\* while the rate feed is not live
C1_Witness ==
    /\ result.op = "assets_grouped"
    /\ result.base_currency = "USD"
    /\ provider[RateRequest("USD", "CNY")] # InitialProvider[RateRequest("USD", "CNY")]
    /\ \E i \in DOMAIN Views :
          /\ Views[i].currency = "USD"
          /\ Views[i].native = Dec(600, 0)
          /\ Views[i].converted_amount = Dec(600, 0)

\* C2: for a market-tracked holding with symbol, share count N and a market
\* category, whenever the price lookup returns a price P, zero included, the
\* native amount is exactly N * P, not the stored amount.
C2_TrackedNativeIsSharesTimesPrice ==
    \A i \in DOMAIN Views :
        IsTrackedHolding(Views[i]) /\ IsDec(Views[i].price) =>
            Views[i].native = DecMul(Views[i].price, Views[i].shares)

\* shares = 3, price = 200, stored amount = 1000: native = 600
C2_Witness ==
    \E i \in DOMAIN Views :
        /\ IsTrackedHolding(Views[i])
        /\ Views[i].shares = Dec(3, 0)
        /\ Views[i].price = Dec(200, 0)
        /\ Views[i].amount = Dec(1000, 0)
        /\ Views[i].native = Dec(600, 0)

\* C3: a holding whose market-tracked flag is false is valued at its stored
\* amount and no price is looked up, whatever its symbol, share count and
\* category.
C3_UntrackedUsesStoredAmount ==
    \A i \in DOMAIN Views :
        ~Views[i].tracked =>
            /\ Views[i].native = Views[i].amount
            /\ Views[i].price = NoLookup
            /\ Views[i].price_trace = <<>>

\* an untracked position of 3 AAPL shares stored at 1000 is priced at 200
\* a share and valued at 600
C3_Witness ==
    \E i \in DOMAIN Views :
        /\ ~Views[i].tracked
        /\ Views[i].category = "stock"
        /\ Views[i].symbol = "AAPL"
        /\ Views[i].shares = Dec(3, 0)
        /\ Views[i].amount = Dec(1000, 0)
        /\ Views[i].price = Dec(200, 0)
        /\ Views[i].native = Dec(600, 0)

\* C4: when the native currency differs from the base currency and the
\* exchange-rate lookup returns a rate r, whatever r, the conversion returns
\* (native * r, r).
C4_ConvertedIsNativeTimesRate ==
    \A i \in DOMAIN Views :
        Views[i].currency # result.base_currency /\ IsDec(Views[i].fx) =>
            /\ Views[i].converted_amount = DecMul(Views[i].native, Views[i].fx)
            /\ Views[i].conversion_rate = Views[i].fx

\* the provider quotes EUR/CNY at 0: 1000 euros count as 1000 yuan at rate 1.0
C4_Witness ==
    /\ result.op = "assets_grouped"
    /\ result.base_currency = "CNY"
    /\ \E i \in DOMAIN Views :
          /\ Views[i].currency = "EUR"
          /\ Views[i].fx = Dec(0, 0)
          /\ Views[i].native = Dec(1000, 0)
          /\ Views[i].converted_amount = Dec(1000, 0)
          /\ Views[i].conversion_rate = Dec(10, -1)

C6_RateUnavailableFailsOpen ==
    \A i \in DOMAIN Views :
        Views[i].currency # result.base_currency
        /\ Views[i].fx \in {None, Raised} =>
            /\ Views[i].converted_amount = Views[i].native
            /\ Views[i].conversion_rate = Dec(10, -1)

\* 1000 euros viewed in yuan while no EUR/CNY rate can be had
C6_Witness ==
    /\ result.op = "assets_grouped"
    /\ result.base_currency = "CNY"
    /\ \E i \in DOMAIN Views :
          /\ Views[i].currency = "EUR"
          /\ Views[i].fx = None
          /\ Views[i].fx_trace # <<>>
          /\ Views[i].converted_amount = Dec(1000, 0)

\* C10: the same grouped view asked twice in succession, in the same base
\* currency, with no change of holdings, provider, cache or clock in between,
\* gives every holding the identical (converted amount, rate) both times.
C10_ValuationIsIdempotent ==
    prev.op # "none" =>
        /\ DOMAIN result.views = DOMAIN prev.views
        /\ \A i \in DOMAIN result.views :
              /\ result.views[i].converted_amount = prev.views[i].converted_amount
              /\ result.views[i].conversion_rate = prev.views[i].conversion_rate

\* the first view fetched price and rate from the provider, the second had
\* both from the cache
C10_Witness ==
    /\ prev.op = "assets_grouped"
    /\ \E i \in DOMAIN result.views :
          /\ prev.views[i].price_trace
                = <<"get stock_price:AAPL", "fetch GLOBAL_QUOTE:AAPL",
                    "set stock_price:AAPL">>
          /\ result.views[i].price_trace = <<"get stock_price:AAPL">>
          /\ result.views[i].fx_trace = <<"get exchange_rate:USD_CNY">>
          /\ result.views[i].converted_amount = Dec(42000, -1)

\* the sum of the counts of the categories cs of a breakdown or summary
RECURSIVE SumCounts(_, _)
SumCounts(summary, cs) ==
    IF cs = {} THEN 0
    ELSE summary[CHOOSE c \in cs : TRUE].count
         + SumCounts(summary, cs \ {CHOOSE c \in cs : TRUE})

\* C12: whatever fails in the cache (ping, get, setex) and at the provider
\* (no answer, or an exception) during a grouped view or a portfolio summary,
\* the call returns a complete result: every amount is a number and the
\* category counts add up to the number of the user's holdings.
C12_ResultIsComplete ==
    /\ result.op = "assets_grouped" =>
          /\ SumCounts(result.breakdown, DOMAIN result.breakdown)
                = Cardinality(OwnedBy(assets, users[result.device_id]))
          /\ \A c \in DOMAIN result.breakdown :
                IsDec(result.breakdown[c].total_amount)
    /\ result.op = "credits_grouped" =>
          /\ SumCounts(result.breakdown, DOMAIN result.breakdown)
                = Cardinality(OwnedBy(credits, users[result.device_id]))
          /\ \A c \in DOMAIN result.breakdown :
                IsDec(result.breakdown[c].total_amount)
    /\ result.op = "summary" =>
          /\ SumCounts(result.asset_summary, DOMAIN result.asset_summary)
                = Cardinality(OwnedBy(assets, users[result.device_id]))
          /\ SumCounts(result.credit_summary, DOMAIN result.credit_summary)
                = Cardinality(OwnedBy(credits, users[result.device_id]))
          /\ IsDec(result.net_worth)
    /\ \A i \in DOMAIN Views :
          /\ IsDec(Views[i].converted_amount)
          /\ IsDec(Views[i].conversion_rate)

\* Redis fails its commands, the quote raises and no rate can be had: the
\* position is still counted, at its stored amount
C12_Witness ==
    /\ result.op = "summary"
    /\ result.base_currency = "CNY"
    /\ redis_state = "flaky"
    /\ SumCounts(result.asset_summary, DOMAIN result.asset_summary) = 1
    /\ \E i \in DOMAIN result.asset_views :
          /\ result.asset_views[i].price = Raised
          /\ result.asset_views[i].fx = None
          /\ result.asset_views[i].converted_amount = Dec(1000, 0)

\* what the provider's fetch for the price of the valued item v returns
FetchedPrice(v) ==
    CASE v.category = "stock" -> FetchStockPrice(provider, v.symbol)
      [] v.category = "crypto" -> FetchExchangeRate(provider, v.symbol, "USD")
      [] OTHER -> FetchExchangeRate(provider, CommoditySymbol(v.category), "USD")

\* C16: while Redis is unreachable (the ping fails) or its commands raise,
\* every price or rate lookup goes to the provider and returns what the
\* provider's fetch returns; the cache failure neither raises nor loses a
\* value the provider gave.
C16_CacheFailureFallsThrough ==
    redis_state # "up" =>
        \A i \in DOMAIN Views :
            /\ Views[i].price # NoLookup =>
                  Views[i].price = FetchedPrice(Views[i])
            /\ Views[i].fx # NoLookup =>
                  Views[i].fx = FetchExchangeRate(provider, Views[i].currency,
                                                  result.base_currency)

\* Redis answers the ping and fails get and setex: the price 200 and the
\* rate 7.0 come from the provider, and nothing is stored
C16_Witness ==
    /\ redis_state = "flaky"
    /\ redis = <<>>
    /\ \E i \in DOMAIN Views :
          /\ Views[i].price = Dec(200, 0)
          /\ Views[i].price_trace
                = <<"get stock_price:AAPL", "fetch GLOBAL_QUOTE:AAPL",
                    "set stock_price:AAPL">>
          /\ Views[i].fx = Dec(70, -1)
          /\ Views[i].converted_amount = Dec(42000, -1)

\* the provider request behind the price of the valued item v
PriceRequestOf(v) ==
    CASE v.category = "stock" -> QuoteRequest(v.symbol)
      [] v.category = "crypto" -> RateRequest(v.symbol, "USD")
      [] OTHER -> RateRequest(CommoditySymbol(v.category), "USD")

\* the lookup with this trace sent req to the provider
Fetches(trace, req) == \E j \in DOMAIN trace : trace[j] = "fetch " \o req

\* an answer that carries no number: a failed call, or a price field that
\* is missing or is not numeric
Unusable(resp) == resp.status # "ok" \/ ParseDecimal(resp.body) = Raised

\* C17: whenever the provider's answer to a fetch is a failure (status other
\* than 200, rate-limit note, error message, exception, missing or
\* non-numeric field), the price or rate lookup returns None and does not
\* raise.
C17_ProviderFailureIsUnavailable ==
    \A i \in DOMAIN Views :
        /\ Views[i].price # Raised
        /\ Views[i].fx # Raised
        /\ Fetches(Views[i].price_trace, PriceRequestOf(Views[i]))
           /\ Unusable(Answer(provider, PriceRequestOf(Views[i])))
              => Views[i].price = None
        /\ Fetches(Views[i].fx_trace,
                   RateRequest(Views[i].currency, result.base_currency))
           /\ Unusable(Answer(provider, RateRequest(Views[i].currency,
                                                     result.base_currency)))
              => Views[i].fx = None

\* the quote of AAPL carries the price "N/A": get_stock_price raises
C17_Witness ==
    /\ provider[QuoteRequest("AAPL")] = Ok(StrBad)
    /\ \E i \in DOMAIN Views :
          /\ Views[i].symbol = "AAPL"
          /\ Fetches(Views[i].price_trace, QuoteRequest("AAPL"))
          /\ Views[i].price = Raised

-----------------------------------------------------------------------------
(* Properties of the portfolio summary (Spec) *)

\* the sum of the converted amounts of the views
RECURSIVE SumConverted(_)
SumConverted(views) ==
    IF views = <<>> THEN Dec(0, 0)
    ELSE DecAdd(Head(views).converted_amount, SumConverted(Tail(views)))

\* the sum of the totals of the categories cs of a summary
RECURSIVE SumTotals(_, _)
SumTotals(summary, cs) ==
    IF cs = {} THEN Dec(0, 0)
    ELSE DecAdd(summary[CHOOSE c \in cs : TRUE].total_amount,
                SumTotals(summary, cs \ {CHOOSE c \in cs : TRUE}))

-----------------------------------------------------------------------------
(* Properties of the refresh (SpecRefresh) *)

\* the columns of an asset other than the current value and the timestamps
\* of its last update (last_price_update, and updated_at, which the
\* database sets on every UPDATE of the row)
FrameColumns ==
    {"user_id", "category", "amount", "currency", "symbol", "shares",
     "is_market_tracked", "original_amount", "created_at"}

\* C8: whatever the outcome of refresh_prices for an asset (updated, failed
\* or skipped), its stored amount afterwards is its stored amount before;
\* a refresh changes only the current value and the timestamps of the last
\* update, and no other column.
C8_RefreshKeepsStoredAmount ==
    result.op = "refresh" =>
        /\ DOMAIN assets = DOMAIN result.before
        /\ \A id \in DOMAIN assets :
              /\ assets[id].amount = result.before[id].amount
              /\ \A column \in FrameColumns :
                    assets[id][column] = result.before[id][column]

\* shares = 3, price = 200: a day after its creation the position's current
\* value becomes 600 and its stored amount stays 300
C8_Witness ==
    /\ result.op = "refresh"
    /\ \E id \in DOMAIN assets :
          /\ id \in DOMAIN result.price_results
          /\ result.price_results[id].success
          /\ result.before[id].current_amount = None
          /\ result.before[id].last_price_update = 0
          /\ DecEq(assets[id].current_amount, Dec(600, 0))
          /\ assets[id].last_price_update = 1
          /\ assets[id].amount = Dec(300, 0)

\* C9: after a successful refresh of a market-tracked holding of N shares
\* whose fetched price is P, the persisted current value is N * P, in the
\* holding's native currency, whatever base currency the refresh was called
\* with.
C9_CurrentValueIsSharesTimesPrice ==
    result.op = "refresh" =>
        \A id \in DOMAIN result.price_results :
            result.price_results[id].success =>
                DecEq(assets[id].current_amount,
                      DecMul(result.price_results[id].market_price,
                             result.before[id].shares))

\* 3 shares in dollars at 200, refreshed with base currency CNY while
\* USD/CNY is 7.0: the persisted current value is 4200
C9_Witness ==
    /\ result.op = "refresh"
    /\ result.base_currency = "CNY"
    /\ \E id \in DOMAIN result.price_results :
          /\ result.price_results[id].success
          /\ result.before[id].currency = "USD"
          /\ result.before[id].shares = Dec(3, 0)
          /\ result.price_results[id].market_price = Dec(200, 0)
          /\ DecEq(assets[id].current_amount, Dec(4200, 0))

-----------------------------------------------------------------------------
(* Properties of repeated summaries (SpecWindow) *)

\* the totals of the summary record r are those of the last summary
SameTotals(r) ==
    /\ result.asset_summary = r.asset_summary
    /\ result.credit_summary = r.credit_summary
    /\ result.net_worth = r.net_worth

\* C11 as stated: a portfolio summary made within the TTL window of an
\* earlier one for the same holdings and base currency returns the same
\* category totals and net worth, whatever the provider did in between.
C11_SameTotalsWithinTtl ==
    result.op = "summary" /\ seen # Idle =>
        (result.base_currency \in DOMAIN seen.first =>
            SameTotals(seen.first[result.base_currency]))

\* C11: when the earlier summary left every price and rate it used in the
\* cache (Redis reachable, each lookup a hit or a fetch of a non-zero value
\* that was stored) and Redis is reachable at the later summary, made before
\* any of those entries expires, both return the same category totals and
\* net worth even if the provider's prices or rates changed in between.
C11_KeptTotalsAreStable ==
    result.op = "summary" /\ seen # Idle /\ redis_state = "up" =>
        (result.base_currency \in DOMAIN seen.first =>
            (seen.first[result.base_currency].kept =>
                SameTotals(seen.first[result.base_currency])))

\* the first summary fetched AAPL at 200 and USD/CNY at 7.0; the provider
\* then stopped quoting both, and the next summary still totals 4200
C11_Witness ==
    /\ result.op = "summary"
    /\ result.base_currency = "CNY"
    /\ seen # Idle
    /\ provider[QuoteRequest("AAPL")] # InitialProvider[QuoteRequest("AAPL")]
    /\ provider[RateRequest("USD", "CNY")] # InitialProvider[RateRequest("USD", "CNY")]
    /\ "CNY" \in DOMAIN seen.first
    /\ seen.first["CNY"].kept
    /\ \E i \in DOMAIN result.asset_views :
          /\ result.asset_views[i].price_trace = <<"get stock_price:AAPL">>
          /\ result.asset_views[i].fx_trace = <<"get exchange_rate:USD_CNY">>
          /\ result.asset_views[i].converted_amount = Dec(42000, -1)

-----------------------------------------------------------------------------
(* Properties of the grouped views (Spec) *)

\* the places (category, position) of the breakdown where holding id appears
Places(breakdown, id) ==
    {p \in UNION {{<<c, j>> : j \in DOMAIN breakdown[c].items} :
                     c \in DOMAIN breakdown} :
        breakdown[p[1]].items[p[2]].id = id}

\* the rows a grouped view is about
GroupedTable == IF result.op = "assets_grouped" THEN assets ELSE credits

\* C13: in a grouped view every holding of the user appears in exactly one
\* bucket, the one keyed by its category; each bucket's count is the number
\* of its items and its total_amount the sum of their converted amounts.
C13_BucketsPartitionHoldings ==
    result.op \in {"assets_grouped", "credits_grouped"} =>
        /\ \A id \in OwnedBy(GroupedTable, users[result.device_id]) :
              /\ Cardinality(Places(result.breakdown, id)) = 1
              /\ \A p \in Places(result.breakdown, id) :
                    p[1] = GroupedTable[id].category
        /\ \A c \in DOMAIN result.breakdown :
              /\ result.breakdown[c].count = Len(result.breakdown[c].items)
              /\ result.breakdown[c].total_amount
                    = SumConverted(result.breakdown[c].items)
              /\ \A j \in DOMAIN result.breakdown[c].items :
                    result.breakdown[c].items[j].id
                        \in OwnedBy(GroupedTable, users[result.device_id])

\* two stock positions, one priced at 200 a share and one the provider does
\* not know, share the bucket "stock": 4200 + 2100 yuan
C13_Witness ==
    /\ result.op = "assets_grouped"
    /\ result.base_currency = "CNY"
    /\ DOMAIN result.breakdown = {"stock"}
    /\ result.breakdown["stock"].count = 2
    /\ DecEq(result.breakdown["stock"].total_amount, Dec(6300, 0))

-----------------------------------------------------------------------------
(* Properties of the counts of a refresh (SpecRefresh) *)

\* the selected holdings that have no symbol
WithoutSymbol ==
    {id \in result.selected : result.before[id].symbol = NoSymbol}

\* C14: refresh_prices returns counts in which every selected market-tracked
\* holding is counted once, as updated, failed or skipped, whatever cannot
\* be priced; the holdings without symbol are the skipped ones and are
\* neither updated nor failed.
C14_CountsCoverSelected ==
    result.op = "refresh" =>
        /\ result.counts.updated + result.counts.failed + result.counts.skipped
              = Cardinality(result.selected)
        /\ result.counts.skipped = Cardinality(WithoutSymbol)
        /\ WithoutSymbol \cap DOMAIN result.price_results = {}
        /\ \A id \in WithoutSymbol : assets[id] = result.before[id]
        /\ \A id \in DOMAIN assets :
              assets[id] # result.before[id] =>
                  /\ id \in result.selected
                  /\ result.counts.updated > 0

\* of two tracked positions one has no symbol and the quote of the other
\* cannot be parsed: one skipped, one failed, none updated
C14_Witness ==
    /\ result.op = "refresh"
    /\ Cardinality(result.selected) = 2
    /\ result.counts = [updated |-> 0, failed |-> 1, skipped |-> 1]
    /\ provider[QuoteRequest("AAPL")] = Ok(StrBad)

-----------------------------------------------------------------------------
(* Properties of the price cache (SpecCache) *)

\* C15 as stated: after set(k, v, ttl), get(k) returns exactly v until ttl
\* has elapsed and absent afterwards; a later set overwrites the entry and
\* its expiry; get returns nothing for a key never set or expired.
C15_GetReturnsLastSet ==
    result.op = "cache_get" =>
        result.ret = IF result.key \in DOMAIN seen.called
                     THEN seen.called[result.key].price ELSE None

\* C15: while the cache store is reachable, get(k) returns exactly the v of
\* the last set(k, v, ttl) the store accepted, until that call's ttl has
\* elapsed, and absent afterwards or when no set was accepted; a later
\* accepted set overwrites the entry and its expiry.  While the store is
\* unreachable or failing, set stores nothing and get returns absent.
C15_GetReturnsLastStoredSet ==
    result.op = "cache_get" =>
        result.ret = IF redis_state = "up" /\ result.key \in DOMAIN seen.stored
                     THEN seen.stored[result.key].price ELSE None

\* "7.0" set for two days is read back a day later, digit for digit
C15_Witness ==
    /\ result.op = "cache_get"
    /\ result.ret = Dec(70, -1)
    /\ now = 1
    /\ redis_state = "up"
    /\ result.key \in DOMAIN seen.stored
    /\ seen.stored[result.key].until = 2

-----------------------------------------------------------------------------
(* Properties of the concurrent refresh (SpecGather) *)

\* what update_asset_price returns for asset id when it runs by itself on
\* the cache the refresh started from
AloneOutcome(id) ==
    Results((id :> UpdateAssetPrice(AssetData(id, result.before[id]),
                                    result.base_currency, "up", seen.store,
                                    provider, now)))[id]

\* C18: whatever the interleaving of the tasks of update_multiple_assets
\* and whichever of them fail or raise, the result has an outcome for every
\* submitted holding, a task that raised has (False, None, None), and every
\* holding has the outcome it gets when its task runs alone.
C18_OutcomesAreIndependent ==
    result.op = "refresh" /\ seen.op = "batch" =>
        /\ DOMAIN result.price_results
              = {id \in result.selected : result.before[id].symbol # NoSymbol}
        /\ \A id \in DOMAIN result.price_results :
              result.price_results[id] = AloneOutcome(id)

\* the quote of AAPL cannot be parsed: the task of the first position
\* raises before the task of the bitcoins has fetched its price, and the
\* bitcoins are still valued at 3 * 200 * 7.0
C18_Witness ==
    /\ result.op = "refresh"
    /\ seen.op = "batch"
    /\ result.base_currency = "CNY"
    /\ DOMAIN result.price_results = {1, 2}
    /\ result.price_results[1] = Failure
    /\ result.traces[1] = <<"get stock_price:AAPL", "fetch GLOBAL_QUOTE:AAPL">>
    /\ result.price_results[2].success
    /\ DecEq(result.price_results[2].current_amount, Dec(4200, 0))
    /\ Len(seen.writes) = 2
    /\ seen.writes[1].id = 2

-----------------------------------------------------------------------------
(* Properties of the order of the rows (SpecOrder) *)

\* the rows in the order of their ids
IdOrder == [i \in DOMAIN assets |-> i]

\* two summaries with the same categories, counts, totals and net worth
SameSummary(r, q) ==
    /\ DOMAIN r.asset_summary = DOMAIN q.asset_summary
    /\ \A c \in DOMAIN r.asset_summary :
          /\ r.asset_summary[c].count = q.asset_summary[c].count
          /\ WideValue(r.asset_summary[c].total_amount)
                = WideValue(q.asset_summary[c].total_amount)
    /\ WideValue(r.net_worth) = WideValue(q.net_worth)

\* C19: for fixed prices and a fixed rate, the category totals, the counts and
\* the net worth of the portfolio summary are the same in whatever order the
\* holdings are processed: those of the rows taken in the order of their ids
C19_SummaryIsOrderIndependent ==
    result.op = "summary_in_context" =>
        SameSummary(result, SummaryInContext(assets, IdOrder, OrderValues))

\* C19 witness: the summary of three crypto holdings was computed with the
\* rows in another order than that of their ids
C19_Witness ==
    /\ result.op = "summary_in_context"
    /\ result.order # IdOrder
    /\ Cardinality(DOMAIN assets) = 3
    /\ \A id \in DOMAIN assets : assets[id].category = "crypto"
    /\ result.asset_summary["crypto"].count = 3

-----------------------------------------------------------------------------
(* Properties of concurrent lookups of one key (SpecRace) *)

\* the writes of the batch to the key, in order
WritesTo(key) == SelectSeq(seen.writes, LAMBDA w : w.key = key)

\* what update_asset_price has got, or returned, as the price of asset id
PriceReturned(id) ==
    IF inflight # Idle THEN inflight.tasks[id].price
    ELSE IF result.op = "refresh" THEN result.price_results[id].market_price
    ELSE None

\* C20: while tasks look up the same key, miss and fetch, the cache entry
\* of every key written is the one the last of the writes to it stored
\* (its value whole, with its own expiry), and the price every task goes on
\* with and returns is the one it fetched itself, whatever the cache holds by
\* then.
C20_LastWriteWins ==
    seen.op = "batch" =>
        /\ \A i \in DOMAIN seen.writes :
              LET key == seen.writes[i].key
                  last == WritesTo(key)[Len(WritesTo(key))]
              IN /\ key \in DOMAIN redis
                 /\ redis[key].value = DecStr(last.value)
                 /\ redis[key].expires
                       = now + (IF last.pc = "price_set" THEN CacheTtlMarketPrices
                                ELSE CacheTtlExchangeRates)
        /\ \A i \in DOMAIN seen.writes :
              seen.writes[i].pc = "price_set"
              /\ (inflight # Idle \/ result.op = "refresh")
                  => PriceReturned(seen.writes[i].id) = seen.writes[i].value

\* C20 witness: both tasks missed stock_price:AAPL, the first fetched 200 and
\* the second, the market having moved, 8.0; the second wrote last, the entry
\* is 8.0, and the first position is still valued at 200 a share
C20_Witness ==
    /\ result.op = "refresh"
    /\ seen.op = "batch"
    /\ Len(WritesTo("stock_price:AAPL")) = 2
    /\ WritesTo("stock_price:AAPL")[1] = [id |-> 1, pc |-> "price_set",
                                           key |-> "stock_price:AAPL",
                                           value |-> Dec(200, 0)]
    /\ WritesTo("stock_price:AAPL")[2].id = 2
    /\ redis["stock_price:AAPL"].value = Str8
    /\ result.price_results[1].market_price = Dec(200, 0)
    /\ result.price_results[2].market_price = Dec(80, -1)

-----------------------------------------------------------------------------
(* Properties of the assets a refresh could not price (SpecRefresh) *)

\* C28: an asset that refresh_prices counts as failed (its task returned
\* failure or raised) or as skipped (it has no symbol) is left as it was:
\* current value, last price update, update timestamp and every other field
C28_FailedAndSkippedAreLeftAlone ==
    result.op = "refresh" =>
        \A id \in result.selected :
            (id \notin DOMAIN result.price_results
                \/ ~result.price_results[id].success)
            => assets[id] = result.before[id]

\* C28 witness: a later refresh failed for an asset that an earlier refresh
\* had given a current value, and skipped another
C28_Witness ==
    /\ result.op = "refresh"
    /\ result.counts.failed = 1
    /\ result.counts.skipped = 1
    /\ \E id \in DOMAIN result.price_results :
          /\ ~result.price_results[id].success
          /\ assets[id].current_amount # None
          /\ assets[id].last_price_update < now

-----------------------------------------------------------------------------
(* Properties of the assets a refresh selects (SpecSelect) *)

\* the assets the last refresh selected, priced or changed
Touched ==
    result.selected \cup DOMAIN result.price_results
    \cup {id \in DOMAIN assets : assets[id] # result.before[id]}

\* C26: refresh_prices called with a list of asset ids selects, prices,
\* counts and changes only assets of the list that belong to the user of the
\* calling device and are market-tracked; called with None it selects all
\* market-tracked assets of the user
C26_ListRefreshesOnlyListed ==
    result.op = "refresh" =>
        /\ \A id \in Touched :
              /\ assets[id].user_id = users[result.device_id]
              /\ result.before[id].is_market_tracked
              /\ seen.asset_ids.given => id \in seen.asset_ids.ids
        /\ result.counts.updated + result.counts.failed + result.counts.skipped
              = Cardinality(result.selected)
        /\ ~seen.asset_ids.given =>
              result.selected = {id \in OwnedBy(assets, users[result.device_id]) :
                                    assets[id].is_market_tracked}

\* C26 witness: refresh_prices was called with the empty list and gave an
\* asset a current value
C26_Witness ==
    /\ result.op = "refresh"
    /\ seen.asset_ids = AssetIds({})
    /\ result.counts.updated >= 1
    /\ \E id \in DOMAIN assets : assets[id].current_amount # None

\* refresh_prices called with a list that names an asset keeps to the list
ListedOnly ==
    (result.op = "refresh" /\ seen.asset_ids.ids # {}) =>
        \A id \in Touched :
            /\ id \in seen.asset_ids.ids
            /\ assets[id].user_id = users[result.device_id]
            /\ result.before[id].is_market_tracked

-----------------------------------------------------------------------------
(* Properties of the value a refresh persists (SpecSnapshot) *)

\* the native value _compute_native_amount gives the asset now
NativeNow(id) == ComputeNativeAmount(assets[id], redis_state, redis, provider, now).ret

\* C27: at fixed prices, the current value a refresh persists for a
\* market-tracked holding with symbol and share count equals the native value
\* the valuation computes for it: same quote kind for the category (commodity
\* price for gold and silver), same share count
C27_SnapshotEqualsNativeValue ==
    result.op = "refresh" =>
        \A id \in DOMAIN result.price_results :
            result.price_results[id].success =>
                DecEq(assets[id].current_amount, NativeNow(id))

\* C27 witness: a refresh in USD persisted 24 for three shares of gold, the
\* GLD stock quote being 8, where the valuation gives 600, the XAU rate
\* being 200
C27_Witness ==
    /\ result.op = "refresh"
    /\ result.base_currency = "USD"
    /\ \E id \in DOMAIN result.price_results :
          /\ assets[id].category = "gold"
          /\ result.price_results[id].success
          /\ DecEq(assets[id].current_amount, Dec(24, 0))
          /\ DecEq(NativeNow(id), Dec(600, 0))

\* in the currency of the holding, a refresh persists for stock and crypto
\* holdings the value the valuation computes
SnapshotOfStockAndCrypto ==
    (result.op = "refresh" /\ result.base_currency = "USD") =>
        \A id \in DOMAIN result.price_results :
            (result.price_results[id].success
                /\ assets[id].category \in {"stock", "crypto"})
            => DecEq(assets[id].current_amount, NativeNow(id))

-----------------------------------------------------------------------------
(* Properties of the asset handlers (SpecCrud) *)

ByIdOps == {"get_asset_by_id", "update_asset", "delete_asset"}

\* the asset the call names was in the table, and the device of the call
\* created it
ExistsCreatedBy(r) ==
    /\ r.asset_id \in DOMAIN r.before.assets
    /\ seen.created[r.asset_id] = r.device_id

\* the call left alone every row but the one it names
OthersKept(r) ==
    \A id \in DOMAIN r.before.assets \ {r.asset_id} :
        id \in DOMAIN assets /\ assets[id] = r.before.assets[id]

UserOps == ByIdOps \cup {"get_or_create_user", "create_asset"}

\* C22: the first _get_or_create_user of a device creates its user, every
\* later call for the device returns that user and inserts nothing, and no
\* two devices share a user: one user record per device at every point
C22_OneUserPerDevice ==
    /\ \A d \in DOMAIN seen.first : d \in DOMAIN users /\ users[d] = seen.first[d]
    /\ \A d \in DOMAIN users : \A e \in DOMAIN users : users[d] = users[e] => d = e
    /\ result.op \in UserOps =>
          /\ result.user_id = seen.first[result.device_id]
          /\ users[result.device_id] = result.user_id
          /\ IF result.device_id \in DOMAIN result.before.users
             THEN users = result.before.users
             ELSE /\ DOMAIN users = DOMAIN result.before.users \cup {result.device_id}
                  /\ \A d \in DOMAIN result.before.users :
                        users[d] = result.before.users[d]

\* C22 witness: _get_or_create_user was called for a device that had its user
\* already, while the other device has one too
C22_Witness ==
    /\ result.op = "get_or_create_user"
    /\ result.device_id \in DOMAIN result.before.users
    /\ Cardinality(DOMAIN users) = 2

\* C24: every stored asset whose market-tracked flag is set has a symbol, a
\* share count and a category among stock, crypto, gold and silver
C24_TrackedHasSymbolSharesAndMarketCategory ==
    \A id \in DOMAIN assets :
        assets[id].is_market_tracked =>
            /\ assets[id].symbol # NoSymbol
            /\ assets[id].shares # None
            /\ assets[id].category \in MarketCategories

\* C24 witness: create_asset stored a cash asset with the flag set, or
\* update_asset set the flag of a cash asset
C24_Witness ==
    /\ result.op \in {"create_asset", "update_asset"}
    /\ result.raised = ""
    /\ "is_market_tracked" \in DOMAIN result.update
    /\ result.update.is_market_tracked
    /\ assets[result.asset_id].category = "cash"
    /\ assets[result.asset_id].is_market_tracked
    /\ assets[result.asset_id].symbol = NoSymbol

-----------------------------------------------------------------------------
(* Properties of update_asset (SpecUpdate) *)

\* the fields of a row other than its update timestamp
ExceptUpdatedAt(row) == [f \in DOMAIN row \ {"updated_at"} |-> row[f]]

-----------------------------------------------------------------------------
(* Properties of lookups one after another (SpecLookup) *)

\* the lookup found a reachable cache in which an earlier lookup of its key
\* had stored a value whose TTL has not ended
Cached(r) ==
    /\ r.client = "up"
    /\ r.key \in DOMAIN r.before.cached
    /\ r.before.now < r.before.cached[r.key].until

\* C25: once a lookup of key k has fetched a value and cached it, every later
\* lookup of k made within the TTL of the entry with the cache reachable
\* returns that value, makes no provider request and leaves the entry as it
\* is; a lookup that calls the provider found no such entry, or no reachable
\* cache
C25_CachedWithinTtlIsNotFetched ==
    result.op = "lookup" =>
        /\ Cached(result) =>
              /\ result.ret = result.before.cached[result.key].value
              /\ result.trace = <<"get " \o result.key>>
              /\ redis = result.before.store
        /\ Made(result.trace, "fetch " \o result.req) => ~Cached(result)

\* C25 witness: the quote was fetched at 200 and cached, then it moved to 8,
\* and a lookup within the TTL returned 200
C25_Witness ==
    /\ result.op = "lookup"
    /\ result.key = "stock_price:AAPL"
    /\ Cached(result)
    /\ result.ret = Dec(200, 0)
    /\ provider[QuoteRequest("AAPL")] = Ok(Str8)

\* the last lookup ended without a price
Unavailable(r) == Ended(r, r.req) = "unavailable"

\* the lookup of this key before this one ended without a price
AfterUnavailable(r) ==
    /\ r.key \in DOMAIN r.before.last
    /\ r.before.last[r.key].ended = "unavailable"

\* C29 as stated: a lookup whose fetch returns no price leaves the cache as it
\* was, no lookup is served such a result from the cache, and the next lookup
\* of the key calls the provider again
C29_UnavailableIsNotCachedAndNextFetches ==
    result.op = "lookup" =>
        /\ Unavailable(result) => redis = result.before.store
        /\ Ended(result, result.req) = "hit" => Truthy(result.ret)
        /\ AfterUnavailable(result) => Made(result.trace, "fetch " \o result.req)

\* C29: a lookup whose fetch returns no price leaves the cache as it was; a
\* lookup served from the cache gets a price that a lookup fetched and cached;
\* and when the lookup without a price had the cache within reach, the next
\* lookup of the key calls the provider again
C29_UnavailableIsNotCachedAndNextFetchesIfReachable ==
    result.op = "lookup" =>
        /\ Unavailable(result) => redis = result.before.store
        /\ Ended(result, result.req) = "hit" =>
              /\ Truthy(result.ret)
              /\ Cached(result)
              /\ result.ret = result.before.cached[result.key].value
        /\ (AfterUnavailable(result) /\ result.before.last[result.key].client = "up")
              => Made(result.trace, "fetch " \o result.req)

\* C29 witness: the provider was rate-limited when AAPL was looked up with
\* the cache reachable and another key cached; the next lookup of AAPL
\* fetched 200
C29_Witness ==
    /\ result.op = "lookup"
    /\ result.key = "stock_price:AAPL"
    /\ AfterUnavailable(result)
    /\ result.before.last[result.key].client = "up"
    /\ "exchange_rate:USD_CNY" \in DOMAIN result.before.store
    /\ Made(result.trace, "fetch " \o result.req)
    /\ result.ret = Dec(200, 0)

-----------------------------------------------------------------------------
(* Properties of requests inside _get_or_create_user (SpecUsers) *)

\* C30: requests that interleave inside _get_or_create_user for a device
\* without user all return without error, with the one user of the device
C30_InterleavedRequestsGetTheSameUser ==
    \A r \in Requests :
        inflight.reqs[r].pc = "done" =>
            /\ inflight.reqs[r].raised = ""
            /\ inflight.reqs[r].device_id \in DOMAIN users
            /\ inflight.reqs[r].user_id = users[inflight.reqs[r].device_id]

\* C30 witness: both requests looked up the same device before either
\* inserted; the first commit created the user and the second raised
C30_Witness ==
    /\ inflight.reqs["r1"] = [pc |-> "done", device_id |-> "d1", user_id |-> 1,
                              raised |-> ""]
    /\ inflight.reqs["r2"] = [pc |-> "done", device_id |-> "d1", user_id |-> 0,
                              raised |-> "IntegrityError"]
    /\ users = ("d1" :> 1)
====
